---- MODULE Spec2Model ----
(***************************************************************************)
(* Verification model of the Kramer Protocol 3000 client and the listener  *)
(* that drives it (automation/cafe_midi_control).                          *)
(*                                                                         *)
(* Text is modelled as sequences of one-character strings; the two control *)
(* characters are written "CR" and "LF".  The socket's receive queue holds *)
(* pieces of the device's byte stream: the body of a line up to and        *)
(* including its carriage return, or the line feed that ends it.           *)
(***************************************************************************)
EXTENDS Integers, Sequences, FiniteSets, TLC

\* ------------------------------------------------------------------------
\* Bounds of the model
\* ------------------------------------------------------------------------
MaxRx == 2          \* pieces the receive queue of the Kramer socket can hold
MaxActions == 2     \* Kramer actions in one preset
MaxData == 3        \* bytes in one buffer received from the SQ mixer
MaxStream == 4          \* pieces queued in the socket when the reads begin
MaxNotes == 2           \* MIDI messages in the stream of the SQ connection

\* ------------------------------------------------------------------------
\* Program constants
\* ------------------------------------------------------------------------
max_retries == 10       \* read budget of the match loop
ConnectTimeout == 2000  \* ms, set before connect
DrainTimeout == 10      \* ms, set before the drain
\* a line read that leaves the connect timeout in place
ReadTimeoutKept == ConnectTimeout

ReadTimeout == 500      \* ms, set by each line read

\* ------------------------------------------------------------------------
\* Text helpers
\* ------------------------------------------------------------------------
Digits == {"0", "1", "2", "3", "4", "5", "6", "7", "8", "9"}

Whitespace == {" ", "TAB", "CR", "LF"}

\* str.upper() on one character
UpperChar(c) ==
    CASE c = "a" -> "A" [] c = "b" -> "B" [] c = "c" -> "C" [] c = "d" -> "D"
      [] c = "e" -> "E" [] c = "f" -> "F" [] c = "g" -> "G" [] c = "h" -> "H"
      [] c = "i" -> "I" [] c = "j" -> "J" [] c = "k" -> "K" [] c = "l" -> "L"
      [] c = "m" -> "M" [] c = "n" -> "N" [] c = "o" -> "O" [] c = "p" -> "P"
      [] c = "q" -> "Q" [] c = "r" -> "R" [] c = "s" -> "S" [] c = "t" -> "T"
      [] c = "u" -> "U" [] c = "v" -> "V" [] c = "w" -> "W" [] c = "x" -> "X"
      [] c = "y" -> "Y" [] c = "z" -> "Z" [] OTHER -> c

\* str.upper()
Upper(s) == [i \in 1..Len(s) |-> UpperChar(s[i])]

\* str.strip(): drop leading and trailing whitespace
RECURSIVE LStrip(_)
LStrip(s) == IF s # <<>> /\ Head(s) \in Whitespace THEN LStrip(Tail(s)) ELSE s

RECURSIVE RStrip(_)
RStrip(s) ==
    IF s # <<>> /\ s[Len(s)] \in Whitespace
    THEN RStrip(SubSeq(s, 1, Len(s) - 1))
    ELSE s

Strip(s) == RStrip(LStrip(s))

\* smallest element of a non-empty set of integers
MinOf(S) == CHOOSE x \in S : \A y \in S : x <= y

\* ------------------------------------------------------------------------
\* KramerMessage._parse_response
\*   P3K_RESPONSE_RE = [~]([0-9])+[@](.*?) ((?:.*)[,]{0,1})\r\n, re.search
\* ------------------------------------------------------------------------
\* the empty dict returned for a line the grammar does not match
Unparsed == [ok |-> FALSE, device |-> "", command |-> <<>>, params |-> <<>>]

\* index of the '@' that ends the digit run starting after position i, or 0
AtSign(s, i) ==
    LET stops == {j \in (i + 1)..Len(s) : s[j] \notin Digits}
    IN  IF stops = {} THEN 0
        ELSE LET j == MinOf(stops)
             IN  IF j > i + 1 /\ s[j] = "@" THEN j ELSE 0

\* index of the first line feed after position j, or 0
FirstLF(s, j) ==
    LET lfs == {f \in (j + 1)..Len(s) : s[f] = "LF"}
    IN  IF lfs = {} THEN 0 ELSE MinOf(lfs)

\* a pattern that does not ask for the '~'
MatchesAtAnyStart(s, i) ==
    /\ AtSign(s, i) # 0
    /\ LET j == AtSign(s, i)
           f == FirstLF(s, j)
       IN  /\ f # 0
           /\ f - 1 > j
           /\ s[f - 1] = "CR"
           /\ \E p \in (j + 1)..(f - 2) : s[p] = " "

\* the pattern matches with its '~' at position i
MatchesAt(s, i) ==
    /\ s[i] = "~"
    /\ AtSign(s, i) # 0
    /\ LET j == AtSign(s, i)
           f == FirstLF(s, j)
       IN  /\ f # 0
           /\ f - 1 > j
           /\ s[f - 1] = "CR"
           /\ \E p \in (j + 1)..(f - 2) : s[p] = " "

\* the groups of the match whose '~' is at position i
GroupsAt(s, i) ==
    LET j == AtSign(s, i)
        f == FirstLF(s, j)
        p == MinOf({q \in (j + 1)..(f - 2) : s[q] = " "})
    IN  [ok |-> TRUE,
         device |-> s[j - 1],
         command |-> Strip(SubSeq(s, j + 1, p - 1)),
         params |-> Strip(SubSeq(s, p + 1, f - 2))]

P3K_RESPONSE_RE(s) ==
    LET starts == {i \in 1..Len(s) : MatchesAt(s, i)}
    IN  IF starts = {} THEN 0 ELSE MinOf(starts)

_parse_response(s) ==
    IF P3K_RESPONSE_RE(s) = 0 THEN Unparsed ELSE GroupsAt(s, P3K_RESPONSE_RE(s))

\* ------------------------------------------------------------------------
\* Commands
\* ------------------------------------------------------------------------
Kinds == {"Handshake", "ROUTE", "VMUTE"}

\* get_response(): the tag the command expects in its response
get_response(kind) ==
    CASE kind = "Handshake" -> <<>>
      [] kind = "ROUTE" -> <<"R", "O", "U", "T", "E">>
      [] kind = "VMUTE" -> <<"V", "M", "U", "T", "E">>

\* ------------------------------------------------------------------------
\* Lines the device can put on the stream (without the final line feed)
\* ------------------------------------------------------------------------
Lines ==
    << <<"~", "0", "1", "@", "R", "O", "U", "T", "E", " ", "1", ",", "1", ",", "3", "CR">>,
       <<"~", "0", "1", "@", "r", "o", "u", "t", "e", " ", "1", ",", "1", ",", "3", "CR">>,
       <<"~", "0", "1", "@", "V", "M", "U", "T", "E", " ", "1", ",", "0", "CR">>,
       <<"~", "0", "1", "@", " ", "O", "K", "CR">>,
       <<"0", "1", "@", "R", "O", "U", "T", "E", " ", "1", "CR">> >>


NL == 0     \* the piece that is a line feed

\* a piece of the stream: the body of line number `line` or the line feed;
\* re  : "cur" when the device produced it as the reply to the command of the
\*       running send_message call, "other" for anything else (the reply to
\*       an earlier command, an unsolicited notification, noise);
\* old : the piece was in the receive queue when the running call began
Piece(l, r) == [line |-> l, re |-> r, old |-> FALSE]

Chars(piece) == IF piece.line = NL THEN <<"LF">> ELSE Lines[piece.line]

\* data.decode('utf-8', errors='ignore') of the bytes of a sequence of pieces
RECURSIVE decode(_)
decode(data) == IF data = <<>> THEN <<>> ELSE Chars(Head(data)) \o decode(Tail(data))

\* the line with which the device answers a command
ReplyLine(kind) ==
    CASE kind = "ROUTE" -> 1
      [] kind = "VMUTE" -> 3
      [] kind = "Handshake" -> 4

VARIABLES
    pc,                 \* where the listener is: top, kenter, listen, exec,
                        \* backoff, or inside send_message: drain, transmit,
                        \* match, sleep
    sq_sock,            \* SocketConnection.sock: none, open, closed
    k_sock,             \* KramerSocketConnection.sock: none, open, closed
    k_timeout,          \* timeout set on the Kramer socket, ms (0: none)
    kramer_controller,  \* main holds a KramerProtocol object
    rx,                 \* receive queue of the Kramer socket
    midline,            \* the device has written a line body, not yet its LF
    peer,               \* Kramer end of the connection: up, closed, reset
    owed,               \* the device has received the command of the running
                        \* call and has not answered it yet
    msg,                \* command of the running send_message call
    ret,                \* caller of the running call: init, preset
    actions,            \* Kramer actions of the preset still to execute
    reads,              \* kind of every line read by the running call
    found_match,        \* found_match of the running call
    handled,            \* numbers of the reads handed to handle_response
    outcome,            \* what the running call reported: match, timeout, error
    nsent,              \* payload writes of the running call
    sawOld,             \* the match loop examined a piece queued before the call
    drained,            \* the drain of the running call discarded something
    matched,            \* whose reply the line reported as the match is
    last,               \* outcome of the previous call on this connection
    hs,                 \* outcome of the handshake of this connection
    senderr,            \* a payload write failed on this connection
    exit_code,          \* exit status of the process (-1: it runs)
    t_pc,               \* a function under study: idle, input, done
    t_in,               \* its arguments
    t_out               \* its result

vars == <<pc, sq_sock, k_sock, k_timeout, kramer_controller, rx, midline, peer,
          owed, msg, ret, actions, reads, found_match, handled, outcome, nsent,
          sawOld, drained, matched, last, hs, senderr, exit_code, t_pc, t_in,
          t_out>>

conn == <<rx, midline, peer, owed>>
frame == <<msg, ret, reads, found_match, handled, outcome, nsent, sawOld, drained,
           matched>>
ghost == <<last, hs, senderr>>
aux == <<exit_code, t_pc, t_in, t_out>>

NoOwed == FALSE

\* nothing is connected and no call runs
Fresh ==
    /\ sq_sock = "none"
    /\ k_sock = "none"
    /\ k_timeout = 0
    /\ kramer_controller = FALSE
    /\ rx = <<>>
    /\ midline = FALSE
    /\ peer = "up"
    /\ owed = NoOwed
    /\ msg = "none"
    /\ ret = "none"
    /\ actions = <<>>
    /\ reads = <<>>
    /\ found_match = FALSE
    /\ handled = <<>>
    /\ outcome = "none"
    /\ nsent = 0
    /\ sawOld = FALSE
    /\ drained = FALSE
    /\ matched = "-"
    /\ last = "none"
    /\ hs = "none"
    /\ senderr = FALSE
    /\ exit_code = -1

\* start of main, of either listener
Init ==
    /\ pc \in {"top", "s_top"}
    /\ Fresh
    /\ t_pc = "idle"
    /\ t_in = <<>>
    /\ t_out = <<>>

\* ------------------------------------------------------------------------
\* The Kramer device and the network
\* ------------------------------------------------------------------------
Room(n) == k_sock = "open" /\ peer = "up" /\ Len(rx) + n <= MaxRx

Emit(l, r, whole) ==
    /\ ~midline
    /\ Room(IF whole THEN 2 ELSE 1)
    /\ rx' = IF whole THEN rx \o <<Piece(l, r), Piece(NL, "other")>>
                      ELSE Append(rx, Piece(l, r))
    /\ midline' = ~whole

\* the device answers the command of the running call
DeviceReply ==
    \E whole \in BOOLEAN :
        /\ owed
        /\ Emit(ReplyLine(msg), "cur", whole)
        /\ owed' = FALSE
        /\ UNCHANGED <<pc, sq_sock, k_sock, k_timeout, kramer_controller, peer,
                       actions, frame, ghost, aux>>

\* the device sends any other line: the late reply to an earlier command, an
\* unsolicited notification, noise.  The handshake reply can come late only
\* once the handshake call has returned.
DeviceNotify ==
    \E l \in 1..Len(Lines), whole \in BOOLEAN :
        /\ l = ReplyLine("Handshake") => last # "none"
        /\ Emit(l, "other", whole)
        /\ UNCHANGED <<pc, sq_sock, k_sock, k_timeout, kramer_controller, peer,
                       owed, actions, frame, ghost, aux>>

\* the line feed of a line whose body was delivered first
DeviceNewline ==
    /\ midline
    /\ Room(1)
    /\ rx' = Append(rx, Piece(NL, "other"))
    /\ midline' = FALSE
    /\ UNCHANGED <<pc, sq_sock, k_sock, k_timeout, kramer_controller, peer,
                   owed, actions, frame, ghost, aux>>

\* the device closes its end: queued bytes stay readable, then recv gives b''
DeviceClose ==
    /\ k_sock = "open"
    /\ peer = "up"
    /\ peer' = "closed"
    /\ UNCHANGED <<pc, sq_sock, k_sock, k_timeout, kramer_controller, rx,
                   midline, owed, actions, frame, ghost, aux>>

\* the connection is reset: recv and sendall raise from now on
DeviceReset ==
    /\ k_sock = "open"
    /\ peer \in {"up", "closed"}
    /\ peer' = "reset"
    /\ rx' = <<>>
    /\ midline' = FALSE
    /\ owed' = NoOwed
    /\ UNCHANGED <<pc, sq_sock, k_sock, k_timeout, kramer_controller, actions,
                   frame, ghost, aux>>

\* ------------------------------------------------------------------------
\* KramerProtocol.send_message
\* ------------------------------------------------------------------------
\* bookkeeping at the start of a call: what is queued is now old, and a
\* queued reply belongs to an earlier command
Age(piece) == [piece EXCEPT !.old = TRUE, !.re = "other"]

\* entry of send_message(msg)
BeginCall(kind, caller) ==
    /\ pc' = "drain"
    /\ msg' = kind
    /\ ret' = caller
    /\ reads' = <<>>
    /\ found_match' = FALSE
    /\ handled' = <<>>
    /\ outcome' = "none"
    /\ nsent' = 0
    /\ sawOld' = FALSE
    /\ drained' = FALSE
    /\ matched' = "-"
    /\ rx' = [i \in 1..Len(rx) |-> Age(rx[i])]
    /\ owed' = FALSE

\* while self._sock.recv(1024): pass, for a recv that returned data:
\* left: what stays queued; more: recv is called again
Drain(q) == [left |-> <<>>, more |-> TRUE]

\* step 1: settimeout(0.01), then the drain; any exception is ignored
SendDrain ==
    /\ pc = "drain"
    /\ k_timeout' = DrainTimeout
    /\ IF peer # "reset" /\ rx # <<>>
       THEN /\ rx' = Drain(rx).left
            /\ drained' = TRUE
            /\ pc' = IF Drain(rx).more THEN "drain" ELSE "transmit"
       ELSE /\ rx' = rx          \* timeout, b'' or an error: the loop ends
            /\ drained' = drained
            /\ pc' = "transmit"
    /\ UNCHANGED <<sq_sock, k_sock, kramer_controller, midline, peer, owed,
                   actions, msg, ret, reads, found_match, handled, outcome,
                   nsent, sawOld, matched, ghost, aux>>

\* step 2: sendall(data_bytes)
SendTransmit ==
    /\ pc = "transmit"
    /\ \/ /\ peer \in {"up", "closed"}          \* written
          /\ nsent' = nsent + 1
          /\ owed' = (peer = "up")
          /\ pc' = "match"
          /\ UNCHANGED <<outcome, senderr>>
       \/ /\ peer \in {"closed", "reset"}       \* sendall raises
          /\ outcome' = "send_error"
          /\ senderr' = TRUE
          /\ pc' = "sleep"
          /\ UNCHANGED <<nsent, owed>>
    /\ UNCHANGED <<sq_sock, k_sock, k_timeout, kramer_controller, rx, midline,
                   peer, msg, ret, actions, reads, found_match, handled,
                   sawOld, drained, matched, last, hs, aux>>

\* a read that takes all that is queued, as recv(1024) would
_recv_until_newline_Greedy(q) == {Len(q)}

\* _recv_until_newline: the numbers of queued pieces one call can return.
\* It stops after the line feed, on a timeout with nothing more to read, or
\* when the time is up after any byte.
_recv_until_newline(q) ==
    IF q = <<>> THEN {0}
    ELSE LET lfs == {i \in 1..Len(q) : q[i].line = NL}
         IN  1..(IF lfs = {} THEN Len(q) ELSE MinOf(lfs))

\* a comparison that forgets .upper()
TagsEqualExact(rx_cmd, expected) == rx_cmd = expected

\* rx_cmd == expected_rx_cmd, both upper-cased
TagsEqual(rx_cmd, expected) == Upper(rx_cmd) = Upper(expected)

\* a loop whose budget is one read too long
MatchLoopBodyOffByOne(kind, line, n) ==
    IF line = <<>>
    THEN [stop |-> TRUE, found |-> FALSE, handle |-> FALSE]
    ELSE IF ~_parse_response(line).ok
    THEN [stop |-> n > max_retries, found |-> FALSE, handle |-> FALSE]
    ELSE IF TagsEqual(_parse_response(line).command, get_response(kind))
    THEN [stop |-> TRUE, found |-> TRUE, handle |-> TRUE]
    ELSE [stop |-> n > max_retries, found |-> FALSE, handle |-> FALSE]

\* a loop body that goes on reading after an empty read
MatchLoopBodyNoBreak(kind, line, n) ==
    IF line = <<>> \/ ~_parse_response(line).ok
    THEN [stop |-> n >= max_retries, found |-> FALSE, handle |-> FALSE]
    ELSE IF TagsEqual(_parse_response(line).command, get_response(kind))
    THEN [stop |-> TRUE, found |-> TRUE, handle |-> TRUE]
    ELSE [stop |-> n >= max_retries, found |-> FALSE, handle |-> FALSE]

\* a loop body that takes a response with an empty tag for noise
MatchLoopBodyNoEmptyTag(kind, line, n) ==
    IF line = <<>>
    THEN [stop |-> TRUE, found |-> FALSE, handle |-> FALSE]
    ELSE IF ~_parse_response(line).ok \/ _parse_response(line).command = <<>>
    THEN [stop |-> n >= max_retries, found |-> FALSE, handle |-> FALSE]
    ELSE IF TagsEqual(_parse_response(line).command, get_response(kind))
    THEN [stop |-> TRUE, found |-> TRUE, handle |-> TRUE]
    ELSE [stop |-> n >= max_retries, found |-> FALSE, handle |-> FALSE]

\* body of the match loop for the line read as read number n:
\* stop: the loop ends; found: found_match; handle: handle_response is called
MatchLoopBody(kind, line, n) ==
    IF line = <<>>
    THEN [stop |-> TRUE, found |-> FALSE, handle |-> FALSE]
    ELSE IF ~_parse_response(line).ok
    THEN [stop |-> n >= max_retries, found |-> FALSE, handle |-> FALSE]
    ELSE IF TagsEqual(_parse_response(line).command, get_response(kind))
    THEN [stop |-> TRUE, found |-> TRUE, handle |-> TRUE]
    ELSE [stop |-> n >= max_retries, found |-> FALSE, handle |-> FALSE]

\* what a line read is, for the command that waits: no data, the line
\* carrying the expected tag, or anything else
LineKind(kind, line) ==
    IF line = <<>> THEN "empty"
    ELSE IF /\ _parse_response(line).ok
            /\ Upper(_parse_response(line).command) = Upper(get_response(kind))
    THEN "hit"
    ELSE "noise"

\* whose reply the data is: the label of its line body
Owner(data) ==
    IF \E i \in 1..Len(data) : data[i].line # NL
    THEN data[MinOf({i \in 1..Len(data) : data[i].line # NL})].re
    ELSE "other"

\* a client that gives up the connection when nothing matched
AfterLoopClose(found, sock) ==
    [outcome |-> IF found THEN "match" ELSE "timeout",
     sock |-> IF found THEN sock ELSE "closed"]

\* after the loop: the warning when nothing matched; the socket is not touched
AfterLoop(found, sock) ==
    [outcome |-> IF found THEN "match" ELSE "timeout", sock |-> sock]

\* a match loop that writes the payload again before every further read
SendMatchResending ==
    /\ pc = "match"
    /\ k_timeout' = ReadTimeout
    /\ \/ /\ peer = "reset"                      \* recv raises
          /\ outcome' = "recv_error"
          /\ pc' = "sleep"
          /\ UNCHANGED <<rx, reads, found_match, handled, sawOld, matched,
                         k_sock, nsent>>
       \/ /\ peer # "reset"
          /\ \E n \in _recv_until_newline(rx) :
               LET data == SubSeq(rx, 1, n)
                   line == decode(data)
                   r == MatchLoopBody(msg, line, Len(reads) + 1)
               IN  /\ rx' = SubSeq(rx, n + 1, Len(rx))
                   /\ reads' = Append(reads, LineKind(msg, line))
                   /\ sawOld' = (sawOld \/ \E i \in 1..n : data[i].old)
                   /\ found_match' = r.found
                   /\ handled' = IF r.handle
                                 THEN Append(handled, Len(reads) + 1)
                                 ELSE handled
                   /\ matched' = IF r.found THEN Owner(data) ELSE matched
                   /\ outcome' = IF r.stop THEN AfterLoop(r.found, k_sock).outcome
                                 ELSE outcome
                   /\ k_sock' = IF r.stop THEN AfterLoop(r.found, k_sock).sock
                                ELSE k_sock
                   /\ pc' = IF r.stop THEN "sleep" ELSE "match"
                   /\ nsent' = IF r.stop THEN nsent ELSE nsent + 1
    /\ UNCHANGED <<sq_sock, kramer_controller, midline, peer, owed,
                   msg, ret, actions, drained, ghost, aux>>

\* step 3: one iteration of the match loop, and what follows the loop
SendMatch ==
    /\ pc = "match"
    /\ k_timeout' = ReadTimeout
    /\ \/ /\ peer = "reset"                      \* recv raises
          /\ outcome' = "recv_error"
          /\ pc' = "sleep"
          /\ UNCHANGED <<rx, reads, found_match, handled, sawOld, matched,
                         k_sock>>
       \/ /\ peer # "reset"
          /\ \E n \in _recv_until_newline(rx) :
               LET data == SubSeq(rx, 1, n)
                   line == decode(data)
                   r == MatchLoopBody(msg, line, Len(reads) + 1)
               IN  /\ rx' = SubSeq(rx, n + 1, Len(rx))
                   /\ reads' = Append(reads, LineKind(msg, line))
                   /\ sawOld' = (sawOld \/ \E i \in 1..n : data[i].old)
                   /\ found_match' = r.found
                   /\ handled' = IF r.handle
                                 THEN Append(handled, Len(reads) + 1)
                                 ELSE handled
                   /\ matched' = IF r.found THEN Owner(data) ELSE matched
                   /\ outcome' = IF r.stop THEN AfterLoop(r.found, k_sock).outcome
                                 ELSE outcome
                   /\ k_sock' = IF r.stop THEN AfterLoop(r.found, k_sock).sock
                                ELSE k_sock
                   /\ pc' = IF r.stop THEN "sleep" ELSE "match"
    /\ UNCHANGED <<sq_sock, kramer_controller, midline, peer, owed,
                   msg, ret, actions, nsent, drained, ghost, aux>>

\* time.sleep(0.1) and return: to KramerProtocol.__init__, whose return ends
\* KramerSocketConnection.__enter__, or to execute_preset
SendReturn ==
    /\ pc = "sleep"
    /\ last' = outcome
    /\ IF ret = "init"
       THEN /\ hs' = outcome
            /\ kramer_controller' = TRUE
            /\ pc' = "listen"
       ELSE /\ pc' = "exec"
            /\ UNCHANGED <<hs, kramer_controller>>
    /\ msg' = "none"
    /\ ret' = "none"
    /\ reads' = <<>>
    /\ found_match' = FALSE
    /\ handled' = <<>>
    /\ outcome' = "none"
    /\ nsent' = 0
    /\ sawOld' = FALSE
    /\ drained' = FALSE
    /\ matched' = "-"
    /\ owed' = FALSE         \* a reply that comes now is a late one
    /\ UNCHANGED <<sq_sock, k_sock, k_timeout, rx, midline, peer, actions,
                   senderr, aux>>

\* ------------------------------------------------------------------------
\* midi_listener.main
\* ------------------------------------------------------------------------
\* with SQSOCKET(sq_ip, sq_port) as sq_controller
SQEnter ==
    /\ pc = "top"
    /\ \E result \in {"ok", "refused", "timeout"} :
         IF result = "ok"
         THEN /\ sq_sock' = "open"
              /\ pc' = "kenter"
         ELSE /\ sq_sock' = "closed"      \* closed in __enter__, re-raised
              /\ pc' = "backoff"
    /\ UNCHANGED <<k_sock, k_timeout, kramer_controller, conn, actions, frame,
                   ghost, aux>>

\* with KramerSocketConnection(kramer_ip, kramer_port) as kramer_controller
KramerEnter ==
    /\ pc = "kenter"
    /\ last' = "none"
    /\ hs' = "none"
    /\ senderr' = FALSE
    /\ \E result \in {"ok", "refused", "timeout"} :
         CASE result = "ok" ->
                /\ k_sock' = "open"
                /\ k_timeout' = ConnectTimeout
                /\ midline' = FALSE
                /\ peer' = "up"
                /\ BeginCall("Handshake", "init")
                /\ UNCHANGED <<sq_sock>>
           [] result = "refused" ->      \* SQ-only mode
                /\ k_sock' = "closed"
                /\ k_timeout' = ConnectTimeout
                /\ pc' = "listen"
                /\ UNCHANGED <<sq_sock, conn, frame>>
           [] result = "timeout" ->      \* leaves both with-blocks
                /\ k_sock' = "closed"
                /\ k_timeout' = ConnectTimeout
                /\ sq_sock' = "closed"
                /\ pc' = "backoff"
                /\ UNCHANGED <<conn, frame>>
    /\ UNCHANGED <<kramer_controller, actions, aux>>

\* the Kramer actions a preset can list
Presets ==
    UNION {[1..n -> {"ROUTE", "VMUTE"}] : n \in 0..MaxActions}

\* data = sq_controller.listen_blocking(); parse_midi_message(...)
Listen ==
    /\ pc = "listen"
    /\ \/ /\ \E p \in Presets : actions' = p     \* a Note-On with a preset
          /\ pc' = "exec"
          /\ UNCHANGED <<sq_sock, k_sock, conn>>
       \/ /\ sq_sock' = "closed"                 \* recv raises: both __exit__
          /\ k_sock' = IF k_sock = "open" THEN "closed" ELSE k_sock
          /\ rx' = <<>>
          /\ midline' = FALSE
          /\ peer' = "up"
          /\ owed' = NoOwed
          /\ actions' = <<>>
          /\ pc' = "backoff"
    /\ UNCHANGED <<k_timeout, kramer_controller, frame, ghost, aux>>

\* execute_preset: the loop over the Kramer actions
Exec ==
    /\ pc = "exec"
    /\ IF actions = <<>> \/ ~kramer_controller
       THEN /\ pc' = "listen"
            /\ actions' = <<>>
            /\ UNCHANGED <<conn, frame>>
       ELSE /\ BeginCall(Head(actions), "preset")
            /\ actions' = Tail(actions)
            /\ UNCHANGED <<midline, peer>>
    /\ UNCHANGED <<sq_sock, k_sock, k_timeout, kramer_controller, ghost, aux>>

\* time.sleep(5), then the next round of while True
Backoff ==
    /\ pc = "backoff"
    /\ pc' = "top"
    /\ sq_sock' = "none"
    /\ k_sock' = "none"
    /\ k_timeout' = 0
    /\ kramer_controller' = FALSE
    /\ UNCHANGED <<conn, actions, frame, ghost, aux>>

\* ------------------------------------------------------------------------
\* CTRL-C
\* ------------------------------------------------------------------------
\* socket.close() by __exit__
Closed(sock) == IF sock = "open" THEN "closed" ELSE sock

\* the process ends at `at` with status `code`; sq and k are the states in
\* which the program leaves its two sockets
Exit(at, code, sq, k) ==
    /\ pc' = at
    /\ exit_code' = code
    /\ sq_sock' = sq
    /\ k_sock' = k
    /\ k_timeout' = 0
    /\ kramer_controller' = FALSE
    /\ rx' = <<>>
    /\ midline' = FALSE
    /\ peer' = "up"
    /\ owed' = NoOwed
    /\ msg' = "none"
    /\ ret' = "none"
    /\ actions' = <<>>
    /\ reads' = <<>>
    /\ found_match' = FALSE
    /\ handled' = <<>>
    /\ outcome' = "none"
    /\ nsent' = 0
    /\ sawOld' = FALSE
    /\ drained' = FALSE
    /\ matched' = "-"
    /\ last' = "none"
    /\ hs' = "none"
    /\ senderr' = FALSE
    /\ UNCHANGED <<t_pc, t_in, t_out>>

\* KeyboardInterrupt raised in the cafe listener.  Inside the try of main it
\* unwinds through the with-blocks that were entered (__exit__ closes their
\* sockets) to except KeyboardInterrupt: sys.exit(0).  Raised inside an
\* __enter__ it passes its except Exception, which closes nothing, and no
\* __exit__ runs for that connection.  Raised in the recv of the drain it is
\* caught by the bare except.  Raised in time.sleep(5) it is outside the try.
KeyboardInterrupt ==
    \/ /\ pc = "top"
       /\ \E sq \in {sq_sock, "open"} : Exit("exited", 0, sq, k_sock)
    \/ /\ pc = "kenter"
       /\ \E k \in {k_sock, "open"} : Exit("exited", 0, Closed(sq_sock), k)
    \/ /\ pc = "drain"
       /\ pc' = "swallowed"
       /\ UNCHANGED <<sq_sock, k_sock, k_timeout, kramer_controller, conn,
                      actions, frame, ghost, aux>>
    \/ /\ pc \in {"drain", "swallowed", "transmit", "match", "sleep"}
       /\ Exit("exited", 0, Closed(sq_sock), IF ret = "init" THEN k_sock ELSE Closed(k_sock))
    \/ /\ pc \in {"listen", "exec"}
       /\ Exit("exited", 0, Closed(sq_sock), Closed(k_sock))
    \/ /\ pc = "backoff"
       /\ Exit("exited", 1, sq_sock, k_sock)

\* except: pass, after a KeyboardInterrupt in the drain: on to the transmit
DrainExcept ==
    /\ pc = "swallowed"
    /\ pc' = "transmit"
    /\ k_timeout' = DrainTimeout
    /\ UNCHANGED <<sq_sock, k_sock, kramer_controller, conn, actions, frame,
                   ghost, aux>>

\* ------------------------------------------------------------------------
\* sq_midi_control: midi_listener.main
\* ------------------------------------------------------------------------
\* with SocketConnection(SQ_MIXER_IP, SQ_MIDI_PORT) as sq_controller
S_Enter ==
    /\ pc = "s_top"
    /\ \E result \in {"ok", "refused", "timeout"} :
         IF result = "ok"
         THEN /\ sq_sock' = "open"
              /\ pc' = "s_listen"
         ELSE /\ sq_sock' = "closed"      \* closed in __enter__, re-raised
              /\ pc' = "s_backoff"        \* time.sleep(5) in the except clause
    /\ UNCHANGED <<k_sock, k_timeout, kramer_controller, conn, actions, frame,
                   ghost, aux>>

\* a listener that backs off after an error in the listening loop
S_ListenErrorBackoff ==
    /\ pc = "s_listen"
    /\ sq_sock' = "closed"
    /\ pc' = "s_backoff"
    /\ UNCHANGED <<k_sock, k_timeout, kramer_controller, conn, actions, frame,
                   ghost, aux>>

\* an error in the listening loop: except Exception: break, __exit__, and the
\* next round of while True at once
S_ListenError ==
    /\ pc = "s_listen"
    /\ sq_sock' = "closed"
    /\ pc' = "s_top"
    /\ UNCHANGED <<k_sock, k_timeout, kramer_controller, conn, actions, frame,
                   ghost, aux>>

\* time.sleep(5) is over: the next round of while True
S_Backoff ==
    /\ pc = "s_backoff"
    /\ pc' = "s_top"
    /\ sq_sock' = "none"
    /\ UNCHANGED <<k_sock, k_timeout, kramer_controller, conn, actions, frame,
                   ghost, aux>>

\* KeyboardInterrupt in the SQ listener; time.sleep(5) runs inside an except
\* clause, where except KeyboardInterrupt of the same try does not apply
S_KeyboardInterrupt ==
    \/ /\ pc = "s_top"
       /\ \E sq \in {sq_sock, "open"} : Exit("s_exited", 0, sq, k_sock)
    \/ /\ pc = "s_listen"
       /\ Exit("s_exited", 0, Closed(sq_sock), k_sock)
    \/ /\ pc = "s_backoff"
       /\ Exit("s_exited", 1, sq_sock, k_sock)

Next ==
    \/ DeviceReply
    \/ DeviceNotify
    \/ DeviceNewline
    \/ DeviceClose
    \/ DeviceReset
    \/ SendDrain
    \/ SendTransmit
    \/ SendMatch
    \/ SendReturn
    \/ SQEnter
    \/ KramerEnter
    \/ Listen
    \/ Exec
    \/ Backoff
    \/ KeyboardInterrupt
    \/ DrainExcept
    \/ S_Enter
    \/ S_ListenError
    \/ S_Backoff
    \/ S_KeyboardInterrupt

Spec == Init /\ [][Next]_vars

\* the listener is a running process: a step of send_message that can be
\* taken is taken; nothing is assumed about the device
FairSpec ==
    /\ Spec
    /\ WF_vars(SendDrain)
    /\ WF_vars(DrainExcept)
    /\ WF_vars(SendTransmit)
    /\ WF_vars(SendMatch)
    /\ WF_vars(SendReturn)

TypeOK ==
    /\ pc \in {"top", "kenter", "listen", "exec", "backoff", "drain",
               "transmit", "match", "sleep", "swallowed", "exited",
               "s_top", "s_listen", "s_backoff", "s_exited"}
    /\ exit_code \in {-1, 0, 1}
    /\ Len(rx) <= MaxRx
    /\ Len(reads) <= max_retries

\* ------------------------------------------------------------------------
\* Properties of send_message
\* ------------------------------------------------------------------------
InCall == pc \in {"drain", "swallowed", "transmit", "match", "sleep"}

\* the call has done all its work: only the settle delay and the return remain
AtExit == pc = "sleep"

\* every line read so far in the running call was noise
NoiseOnly == \A i \in 1..Len(reads) : reads[i] = "noise"

\* C1: the line send_message reports as the match of a command is the reply
\* the device produced for that command, never a reply to an earlier command
\* and never an unsolicited notification.
C1_MatchIsOwnReply == found_match => matched = "cur"

\* C2: when the first k-1 lines read are noise (unparsable or another tag)
\* and the k-th carries the expected tag in any letter case, the call reports
\* a match after exactly k reads and calls handle_response once, on line k.
C2_MatchAfterKReads ==
    \A k \in 1..max_retries :
        ( /\ Len(reads) >= k
          /\ reads[k] = "hit"
          /\ \A i \in 1..(k - 1) : reads[i] = "noise" )
        => /\ Len(reads) = k
           /\ found_match
           /\ handled = <<k>>
           /\ outcome = "match"
           /\ AtExit

C2_Witness ==
    /\ AtExit
    /\ Len(reads) = 3
    /\ reads[3] = "hit"
    /\ handled = <<3>>

\* C3: when every line read is non-empty noise, the call makes exactly 10
\* reads, never an 11th, never calls handle_response and reports the
\* timed-out outcome.
C3_NoiseExhaustsBudget ==
    /\ Len(reads) <= 10
    /\ NoiseOnly => handled = <<>> /\ ~found_match
    /\ (AtExit /\ NoiseOnly /\ outcome \notin {"send_error", "recv_error"})
       => Len(reads) = 10 /\ outcome = "timeout"

C3_Witness ==
    /\ AtExit
    /\ NoiseOnly
    /\ Len(reads) = 10
    /\ outcome = "timeout"

\* C4: a line read that returns no data is the last read of the call: the
\* loop stops there and the call reports the timed-out outcome; with no data
\* at all this is the first read.
C4_EmptyReadStops ==
    \A i \in 1..Len(reads) :
        reads[i] = "empty"
        => /\ i = Len(reads)
           /\ AtExit
           /\ outcome = "timeout"
           /\ ~found_match
           /\ handled = <<>>

C4_Witness ==
    /\ AtExit
    /\ reads = <<"empty">>
    /\ outcome = "timeout"

\* C5: the drain is over before the payload is written: nothing that was
\* queued when the call began is still queued at the transmit or is examined
\* by the match loop, and the match loop runs only after the one write.
C5_StaleFree ==
    /\ ~sawOld
    /\ pc \in {"transmit", "match"} => \A i \in 1..Len(rx) : ~rx[i].old
    /\ pc = "match" => nsent = 1

\* C6: after a payload write has failed the listener tears the connection
\* down and reconnects; it does not go on using the failed Kramer connection.
C6_SendErrorEndsConnection ==
    senderr => pc \in {"sleep", "backoff", "top", "kenter"}

\* C7: a call that ended without a match has not closed the socket, and the
\* next call on the same connection runs on the open socket.
C7_NoMatchKeepsSocket ==
    /\ (AtExit /\ outcome = "timeout") => k_sock = "open"
    /\ (last = "timeout" /\ (InCall \/ pc \in {"listen", "exec"}))
       => k_sock = "open"

C7_Witness ==
    /\ last = "timeout"
    /\ AtExit
    /\ outcome = "match"
    /\ drained

\* a call on this connection has returned to main
Returned == pc \in {"listen", "exec"} /\ last # "none"

\* C8: at return from send_message the socket's timeout is the value the
\* connection had before the call (set at connect), never the drain timeout
\* and never the per-attempt read timeout.
C8_TimeoutRestored == Returned => k_timeout = 2000

\* C8, amended: the timeout is not restored: at return it is 0.5 s when the
\* payload was transmitted and 0.01 s when the write failed.
C8_TimeoutLeft ==
    Returned => k_timeout = IF last = "send_error" THEN 10 ELSE 500

C8_Witness ==
    /\ Returned
    /\ last = "send_error"
    /\ k_timeout = 10

\* C9: a Handshake, whose expected tag is empty, is reported successful right
\* after the transmit, without any line read.
C9_HandshakeFireAndForget ==
    (AtExit /\ msg = "Handshake" /\ nsent = 1)
    => outcome = "match" /\ reads = <<>>

\* C9, amended: a Handshake goes through the match loop like every command:
\* at least one line is read after the transmit, and it is reported
\* successful exactly when the last line read parses to an empty tag.
C9_HandshakeMatchesEmptyTag ==
    (AtExit /\ msg = "Handshake" /\ nsent = 1 /\ outcome # "recv_error")
    => /\ Len(reads) >= 1
       /\ outcome \in {"match", "timeout"}
       /\ outcome = "match" <=> reads[Len(reads)] = "hit"

C9_Witness ==
    /\ AtExit
    /\ msg = "Handshake"
    /\ outcome = "timeout"
    /\ Len(reads) >= 2

\* C10: when the handshake sent right after connect gets no reply or a
\* malformed one, the socket is closed and no protocol object is handed to
\* main.
C10_HandshakeFailureFailsConnect ==
    hs = "timeout" => ~kramer_controller /\ k_sock = "closed"

\* ------------------------------------------------------------------------
\* Functions studied on their own: the listener does not run, t_in holds the
\* arguments and t_out the result
\* ------------------------------------------------------------------------
prog == <<pc, sq_sock, k_sock, k_timeout, kramer_controller, conn, actions,
          frame, ghost, exit_code>>

\* the listener has not started
Parked == pc = "top" /\ Fresh

\* ------------------------------------------------------------------------
\* _parse_response on response lines built from their fields
\* ------------------------------------------------------------------------
DeviceIds == {<<"1">>, <<"7">>, <<"0", "1">>, <<"1", "2">>, <<"0", "0", "7">>}

Tags == {<<"R", "O", "U", "T", "E">>, <<"V", "M", "U", "T", "E">>,
         <<"r", "o", "u", "t", "e">>, <<"E", "R", "R">>, <<"A", "V", "-", "S", "W">>}

ParamStrings == {<<"1", ",", "1", ",", "3">>, <<"1", ",", "0">>, <<"O", "K">>,
                 <<"0", "0", "3">>, <<"1", ",", "1", ",", "3", ",">>,
                 <<"1", ",", " ", "2">>}

\* ~<device-digits>@<tag><space><params>\r\n
ResponseLine(device, tag, params) ==
    <<"~">> \o device \o <<"@">> \o tag \o <<" ">> \o params \o <<"CR", "LF">>

InitParse ==
    /\ Parked
    /\ t_pc = "input"
    /\ t_in \in [device : DeviceIds, tag : Tags, params : ParamStrings]
    /\ t_out = <<>>

ParseApply ==
    /\ t_pc = "input"
    /\ t_out' = _parse_response(ResponseLine(t_in.device, t_in.tag, t_in.params))
    /\ t_pc' = "done"
    /\ UNCHANGED <<t_in, prog>>

NextParse == ParseApply

SpecParse == InitParse /\ [][NextParse]_vars

\* C11: parsing the line built from a device id of one or more digits, a tag
\* without spaces and a comma-separated parameter string gives back exactly
\* that device, tag and parameter string.
C11_RoundTrip ==
    t_pc = "done"
    => /\ t_out.ok
       /\ <<t_out.device>> = t_in.device
       /\ t_out.command = t_in.tag
       /\ t_out.params = t_in.params

\* ------------------------------------------------------------------------
\* One pass of the match loop over a line that may not be a response
\* ------------------------------------------------------------------------
Damages == {"whole", "prefixed", "no_tilde", "no_at", "no_space", "no_cr"}

\* a response line, or what is left of it
Damaged(how, device, tag, params) ==
    CASE how = "whole" -> ResponseLine(device, tag, params)
      [] how = "prefixed" -> <<"x">> \o ResponseLine(device, tag, params)
      [] how = "no_tilde" ->
            device \o <<"@">> \o tag \o <<" ">> \o params \o <<"CR", "LF">>
      [] how = "no_at" ->
            <<"~">> \o device \o tag \o <<" ">> \o params \o <<"CR", "LF">>
      [] how = "no_space" ->
            <<"~">> \o device \o <<"@">> \o tag \o <<"CR", "LF">>
      [] how = "no_cr" ->
            <<"~">> \o device \o <<"@">> \o tag \o <<" ">> \o params \o <<"LF">>

SkipLines ==
    {Damaged(how, device, tag, <<"1", ",", "1", ",", "3">>) :
        how \in Damages, device \in DeviceIds, tag \in Tags}

InitSkip ==
    /\ Parked
    /\ t_pc = "input"
    /\ t_in \in [line : SkipLines, kind : Kinds, n : 1..max_retries]
    /\ t_out = <<>>

\* line_str = data.decode(...); parsed = msg._parse_response(line_str); the
\* rest of the loop body
SkipApply ==
    /\ t_pc = "input"
    /\ t_out' = [parsed |-> _parse_response(t_in.line),
                 loop |-> MatchLoopBody(t_in.kind, t_in.line, t_in.n)]
    /\ t_pc' = "done"
    /\ UNCHANGED <<t_in, prog>>

NextSkip == SkipApply

SpecSkip == InitSkip /\ [][NextSkip]_vars

\* the character does not occur in the text
Lacks(s, c) == \A i \in 1..Len(s) : s[i] # c

RECURSIVE Str(_)
Str(n) ==
    LET digit == <<"0", "1", "2", "3", "4", "5", "6", "7", "8", "9">>
    IN  IF n < 10 THEN <<digit[n + 1]>>
        ELSE Str(n \div 10) \o <<digit[(n % 10) + 1]>>

\* str.split(sep)
RECURSIVE Split(_, _)
Split(s, sep) ==
    IF \A i \in 1..Len(s) : s[i] # sep THEN <<s>>
    ELSE LET k == MinOf({i \in 1..Len(s) : s[i] = sep})
         IN  <<SubSeq(s, 1, k - 1)>> \o Split(SubSeq(s, k + 1, Len(s)), sep)

\* a command that names the source first
Route_get_command_SourceFirst(layer, dest, source) ==
    <<"#">> \o get_response("ROUTE") \o <<" ">> \o Str(source) \o <<",">>
        \o Str(dest) \o <<",">> \o Str(layer) \o <<"CR">>

\* Route.get_command: f"#{self.command} {self.layer},{self.dest},{self.source}\r"
Route_get_command(layer, dest, source) ==
    <<"#">> \o get_response("ROUTE") \o <<" ">> \o Str(layer) \o <<",">>
        \o Str(dest) \o <<",">> \o Str(source) \o <<"CR">>

\* the fixed texts of Route.handle_response; os.linesep is the line feed
RawRouteResponse ==
    <<"R", "a", "w", " ", "R", "o", "u", "t", "e", " ", "R", "e",
          "s", "p", "o", "n", "s", "e", ":", " ">>

ResponseFrom ==
    <<"R", "e", "s", "p", "o", "n", "s", "e", " ", "f", "r", "o",
          "m", " ", "K", "r", "a", "m", "e", "r", " ", "d", "e", "v",
          "i", "c", "e", " ">>

LayerLabel ==
    <<" ", " ", "l", "a", "y", "e", "r", " ", "=", " ">>

DestLabel ==
    <<" ", " ", "d", "e", "s", "t", " ", " ", "=", " ">>

SrcLabel ==
    <<" ", " ", "s", "r", "c", " ", " ", " ", "=", " ">>

\* Route.handle_response(response): the summary, <<>> for None
Route_handle_response(response) ==
    LET resp == _parse_response(response)
        params == Split(resp.params, ",")
    IN  IF ~resp.ok THEN <<>>
        ELSE IF Len(params) < 3 THEN RawRouteResponse \o response
        ELSE ResponseFrom \o <<resp.device>> \o <<":", " ">> \o resp.command
                 \o <<":", "LF">>
                 \o LayerLabel \o params[1] \o <<"LF">>
                 \o DestLabel \o params[2] \o <<"LF">>
                 \o SrcLabel \o params[3]

\* what the device answers to ROUTE layer,dest,source
Answers == {"echo", "lower", "short", "vmute"}

Answer(how, layer, dest, source) ==
    LET args == Str(layer) \o <<",">> \o Str(dest) \o <<",">> \o Str(source)
    IN  CASE how = "echo" -> ResponseLine(<<"0", "1">>, get_response("ROUTE"), args)
          [] how = "lower" ->
                ResponseLine(<<"0", "1">>, <<"r", "o", "u", "t", "e">>, args)
          [] how = "short" ->
                ResponseLine(<<"0", "1">>, get_response("ROUTE"), Str(source))
          [] how = "vmute" ->
                ResponseLine(<<"0", "1">>, get_response("VMUTE"), <<"1", ",", "0">>)

Layers == {1, 5}        \* LAYER_VIDEO, LAYER_USB
Dests == 1..2
Sources == 1..12

InitRoute ==
    /\ Parked
    /\ t_pc = "input"
    /\ t_in \in [layer : Layers, dest : Dests, source : Sources, answer : Answers]
    /\ t_out = <<>>

\* send_message(Route(source, dest, layer)) when the answer is the first line
\* read: the payload written, found_match and resp_msg
RouteApply ==
    /\ t_pc = "input"
    /\ LET line == Answer(t_in.answer, t_in.layer, t_in.dest, t_in.source)
           r == MatchLoopBody("ROUTE", line, 1)
       IN  t_out' = [wire |-> Route_get_command(t_in.layer, t_in.dest, t_in.source),
                     found |-> r.found,
                     summary |-> IF r.handle THEN Route_handle_response(line)
                                 ELSE <<>>]
    /\ t_pc' = "done"
    /\ UNCHANGED <<t_in, prog>>

NextRoute == RouteApply

SpecRoute == InitRoute /\ [][NextRoute]_vars

\* the text occurs in s
Contains(s, text) ==
    \E i \in 0..(Len(s) - Len(text)) : SubSeq(s, i + 1, i + Len(text)) = text

\* Route(source=3, dest=1, layer=1) answered by ~01@ROUTE 1,1,3
TheRoute == t_pc = "done" /\ t_in = [layer |-> 1, dest |-> 1, source |-> 3, answer |-> "echo"]

\* C13: Route(source=3, dest=1, layer=1) writes exactly #ROUTE 1,1,3\r; the
\* answer ~01@ROUTE 1,1,3\r\n is the match and the summary contains
\* 'layer = 1', 'dest = 1' and 'src = 3'.
C13_RouteEndToEnd ==
    TheRoute
    => /\ t_out.wire = <<"#", "R", "O", "U", "T", "E", " ", "1", ",", "1", ",", "3", "CR">>
       /\ t_out.found
       /\ Contains(t_out.summary, <<"l", "a", "y", "e", "r", " ", "=", " ", "1">>)
       /\ Contains(t_out.summary, <<"d", "e", "s", "t", " ", "=", " ", "1">>)
       /\ Contains(t_out.summary, <<"s", "r", "c", " ", "=", " ", "3">>)

\* C13, amended: the same wire bytes and the same match; the summary lines
\* are aligned: it contains 'layer = 1', 'dest  = 1' (two spaces) and
\* 'src   = 3' (three spaces).  For every Route that the device echoes the
\* wire bytes are #ROUTE layer,dest,source\r and the summary ends with
\* the source.
C13_RouteAligned ==
    /\ TheRoute
       => /\ t_out.wire = <<"#", "R", "O", "U", "T", "E", " ", "1", ",", "1", ",", "3", "CR">>
          /\ t_out.found
          /\ Contains(t_out.summary, <<"l", "a", "y", "e", "r", " ", "=", " ", "1">>)
          /\ Contains(t_out.summary, <<"d", "e", "s", "t", " ", " ", "=", " ", "1">>)
          /\ Contains(t_out.summary, <<"s", "r", "c", " ", " ", " ", "=", " ", "3">>)
    /\ (t_pc = "done" /\ t_in.answer \in {"echo", "lower"})
       => /\ t_out.found
          /\ t_out.wire = <<"#", "R", "O", "U", "T", "E", " ">> \o Str(t_in.layer)
                 \o <<",">> \o Str(t_in.dest) \o <<",">> \o Str(t_in.source) \o <<"CR">>
          /\ Contains(t_out.summary, <<"s", "r", "c", " ", " ", " ", "=", " ">> \o Str(t_in.source))

C13_Witness ==
    /\ TheRoute
    /\ t_out.found
    /\ Len(t_out.summary) > 0

\* ------------------------------------------------------------------------
\* Properties of the listeners
\* ------------------------------------------------------------------------
\* C14: a KeyboardInterrupt delivered in any state of the cafe listener ends
\* the process with exit code 0, and no interrupt is lost: the program never
\* carries on after one.  (That the connections are closed by then is C16.)
C14_InterruptExitsCleanly ==
    /\ pc # "swallowed"
    /\ pc = "exited" => exit_code = 0

\* this step closes a connection that was not closed
SockCloses ==
    \/ sq_sock # "closed" /\ sq_sock' = "closed"
    \/ k_sock # "closed" /\ k_sock' = "closed"

\* this step ends the process
Interrupted == pc' \in {"exited", "s_exited"}

\* C15: in both listeners every connection-level failure closes the
\* connections and leads to the 5-second backoff, and a fresh connect attempt
\* starts only out of the backoff.
C15_FailureThenBackoff ==
    [][ /\ (SockCloses /\ ~Interrupted)
           => /\ pc' \in {"backoff", "s_backoff"}
              /\ sq_sock' # "open"
              /\ k_sock' # "open"
        /\ (pc' \in {"top", "s_top"} /\ pc' # pc)
           => pc \in {"backoff", "s_backoff"} ]_vars

\* C15, amended: in the cafe listener a failure closes what is open and leads
\* to the backoff, out of which alone a fresh attempt starts, except that a
\* refused Kramer connection keeps the SQ connection and goes on listening
\* without the Kramer; in the SQ listener a failed connect leads to the
\* backoff, and an error while listening to a fresh attempt at once, without
\* backoff.  Only an interrupt ends either loop.
C15_FailureThenRestart ==
    [][ /\ (SockCloses /\ ~Interrupted /\ pc \in {"top", "listen"})
           => pc' = "backoff" /\ sq_sock' # "open" /\ k_sock' # "open"
        /\ (SockCloses /\ ~Interrupted /\ pc = "kenter")
           => \/ pc' = "backoff" /\ sq_sock' = "closed" /\ k_sock' = "closed"
              \/ pc' = "listen" /\ sq_sock' = "open" /\ k_sock' = "closed"
        /\ (pc' = "top" /\ pc # "top") => pc = "backoff"
        /\ (SockCloses /\ ~Interrupted /\ pc = "s_top") => pc' = "s_backoff"
        /\ (SockCloses /\ ~Interrupted /\ pc = "s_listen") => pc' = "s_top"
        /\ (pc' = "s_top" /\ pc # "s_top") => pc \in {"s_backoff", "s_listen"}
        /\ (pc' = "s_backoff" /\ pc # "s_backoff") => pc = "s_top"
        /\ Interrupted => exit_code' \in {0, 1} ]_vars

C15_Witness ==
    /\ pc = "s_top"
    /\ sq_sock = "closed"

\* C16: every socket created by KramerSocketConnection or SocketConnection is
\* closed on every path out of the connection scope, a failure or an
\* interrupt inside __enter__ included: no socket is open while main waits in
\* the backoff or after the process has exited.
C16_NoSocketLeftOpen ==
    pc \in {"backoff", "exited", "s_backoff", "s_exited"}
    => sq_sock # "open" /\ k_sock # "open"

\* C17: every call of send_message returns, whatever the device sends and
\* however much of it: the drain, the one write and the at most 10 line
\* reads all come to an end.
C17_CallReturns == InCall ~> ~InCall

\* ------------------------------------------------------------------------
\* sq_midi_db: the NRPN address of a control
\* ------------------------------------------------------------------------
\* a channel name: f"IP{i}" is <<"IP", i>>, "LR" is <<"LR", 0>>
Name(kind, i) == <<kind, i>>

CONTROL_BASE_ADDRESS ==
    [Mute |-> 0, Fader |-> 8192, Pan |-> 10240, Assign |-> 12288]

\* one entry <<kind, i, address>> for every "To" destination, as listed
TO_CHANNEL_BASE_ADDRESS ==
    << <<"LR", 0, 0>>, <<"AUX", 1, 128>>, <<"AUX", 2, 256>>, <<"AUX", 3, 384>>,
       <<"AUX", 4, 512>>, <<"AUX", 5, 640>>, <<"AUX", 6, 768>>, <<"AUX", 7, 896>>,
       <<"AUX", 8, 1024>>, <<"AUX", 9, 1152>>, <<"AUX", 10, 1280>>, <<"AUX", 11, 1408>>,
       <<"AUX", 12, 1536>>, <<"GRP", 1, 1664>>, <<"GRP", 2, 1792>>, <<"GRP", 3, 1920>>,
       <<"GRP", 4, 2048>>, <<"GRP", 5, 2176>>, <<"GRP", 6, 2304>>, <<"GRP", 7, 2432>>,
       <<"GRP", 8, 2560>>, <<"GRP", 9, 2688>>, <<"GRP", 10, 2816>>, <<"GRP", 11, 2944>>,
       <<"GRP", 12, 3072>>, <<"FXSND", 1, 3200>>, <<"FXSND", 2, 3328>>, <<"FXSND", 3, 3456>>,
       <<"FXSND", 4, 3584>>, <<"MTX", 1, 3712>>, <<"MTX", 2, 3840>>, <<"MTX", 3, 3968>>,
       <<"MTX", 4, 4096>>, <<"MTX", 5, 4224>>, <<"MTX", 6, 4352>>, <<"MTX", 7, 4480>>,
       <<"MTX", 8, 4608>>, <<"MTX", 9, 4736>>, <<"MTX", 10, 4864>>, <<"MTX", 11, 4992>>,
       <<"MTX", 12, 5120>> >>

_BUS_CHANNELS ==
    {Name(TO_CHANNEL_BASE_ADDRESS[e][1], TO_CHANNEL_BASE_ADDRESS[e][2]) :
        e \in 1..Len(TO_CHANNEL_BASE_ADDRESS)}

\* TO_CHANNEL_BASE_ADDRESS[to_ch]
BaseOf(to_ch) ==
    LET e == CHOOSE e \in 1..Len(TO_CHANNEL_BASE_ADDRESS) :
                 Name(TO_CHANNEL_BASE_ADDRESS[e][1], TO_CHANNEL_BASE_ADDRESS[e][2]) = to_ch
    IN  TO_CHANNEL_BASE_ADDRESS[e][3]

\* the crosspoints: IP1..IP48 and FXRTN1..FXRTN8 to every destination
Crosspoints ==
    {<<Name(kind, i), to_ch>> :
        kind \in {"IP"}, i \in 1..48, to_ch \in _BUS_CHANNELS}
    \cup {<<Name(kind, i), to_ch>> :
        kind \in {"FXRTN"}, i \in 1..8, to_ch \in _BUS_CHANNELS}

CrosspointAddress(pair) ==
    IF pair[1][1] = "IP" THEN BaseOf(pair[2]) + (pair[1][2] - 1)
    ELSE BaseOf(pair[2]) + (pair[1][2] - 1) + 48

\* the masters: LR, AUX1-12, GRP1-12, FXSND1-4, FXRTN1-8, MTX1-12
MasterNames ==
    {Name("LR", 0)} \cup {Name("AUX", i) : i \in 1..12}
        \cup {Name("GRP", i) : i \in 1..12} \cup {Name("FXSND", i) : i \in 1..4}
        \cup {Name("FXRTN", i) : i \in 1..8} \cup {Name("MTX", i) : i \in 1..12}

MasterAddress(ch_name) ==
    CASE ch_name[1] = "LR" -> 2424
      [] ch_name[1] = "AUX" -> 2503 + ch_name[2]
      [] ch_name[1] = "GRP" -> 2515 + ch_name[2]
      [] ch_name[1] = "FXSND" -> 2527 + ch_name[2]
      [] ch_name[1] = "FXRTN" -> 2531 + ch_name[2]
      [] ch_name[1] = "MTX" -> 2539 + ch_name[2]

\* _build_channel_address_map(): the masters are added last
CHANNEL_ADDRESS_MAP ==
    [pair \in Crosspoints \cup {<<m, m>> : m \in MasterNames} |->
        IF pair[1] = pair[2] THEN MasterAddress(pair[1])
        ELSE CrosspointAddress(pair)]

\* the result of a call: what it raised, and the address returned (-1: none)
Raised(error) == [raised |-> error, address |-> -1]

\* a lookup that takes an unknown channel pair for offset 0
get_nrpn_address_Default(control, from_ch, to_ch) ==
    IF control \notin DOMAIN CONTROL_BASE_ADDRESS THEN Raised("KeyError")
    ELSE LET pair == <<from_ch, to_ch>>
             final_address ==
                 CONTROL_BASE_ADDRESS[control]
                 + (IF pair \in DOMAIN CHANNEL_ADDRESS_MAP
                    THEN CHANNEL_ADDRESS_MAP[pair] ELSE 0)
         IN  IF ~(0 <= final_address /\ final_address <= 16383)
             THEN Raised("ValueError")
             ELSE [raised |-> "none", address |-> final_address]

get_nrpn_address(control, from_ch, to_ch) ==
    IF control \notin DOMAIN CONTROL_BASE_ADDRESS THEN Raised("KeyError")
    ELSE IF <<from_ch, to_ch>> \notin DOMAIN CHANNEL_ADDRESS_MAP
    THEN Raised("KeyError")
    ELSE LET final_address ==
                 CONTROL_BASE_ADDRESS[control]
                 + CHANNEL_ADDRESS_MAP[<<from_ch, to_ch>>]
         IN  IF ~(0 <= final_address /\ final_address <= 16383)
             THEN Raised("ValueError")
             ELSE [raised |-> "none", address |-> final_address]

\* the triples tried: known and unknown control types and channel names
ProbeControls == DOMAIN CONTROL_BASE_ADDRESS \cup {"Gain"}

ProbeFrom ==
    {Name("IP", 1), Name("IP", 2), Name("IP", 48), Name("IP", 49),
     Name("FXRTN", 1), Name("FXRTN", 8), Name("FXRTN", 9), Name("LR", 0),
     Name("AUX", 1), Name("GRP", 12), Name("FXSND", 4), Name("MTX", 12)}

ProbeTo == _BUS_CHANNELS \cup {Name("FXRTN", 1), Name("FXRTN", 8), Name("IP", 1),
                               Name("AUX", 13)}

InitNrpn ==
    /\ Parked
    /\ t_pc = "input"
    /\ t_in \in [control : ProbeControls, from_ch : ProbeFrom, to_ch : ProbeTo]
    /\ t_out = <<>>

\* sq_ctrl.send_message(Set<control>NRPN(from_ch, to_ch, ...)): the constructor
\* resolves the address; when it raises nothing is sent, otherwise
\* send_message writes the messages of the sequence
NrpnApply ==
    /\ t_pc = "input"
    /\ LET r == get_nrpn_address(t_in.control, t_in.from_ch, t_in.to_ch)
       IN  t_out' = [raised |-> r.raised, address |-> r.address,
                     wrote |-> IF r.raised = "none" THEN 4 ELSE 0,
                     again |-> Raised("-")]
    /\ t_pc' = "done"
    /\ UNCHANGED <<t_in, prog>>

\* the same triple resolved once more
NrpnRepeat ==
    /\ t_pc = "done"
    /\ t_out' = [t_out EXCEPT
                   !.again = get_nrpn_address(t_in.control, t_in.from_ch, t_in.to_ch)]
    /\ t_pc' = "twice"
    /\ UNCHANGED <<t_in, prog>>

NextNrpn ==
    \/ NrpnApply
    \/ NrpnRepeat

SpecNrpn == InitNrpn /\ [][NextNrpn]_vars

\* the triple of t_in is a defined one, and has been resolved
Defined ==
    /\ t_pc \in {"done", "twice"}
    /\ t_in.control \in DOMAIN CONTROL_BASE_ADDRESS
    /\ <<t_in.from_ch, t_in.to_ch>> \in DOMAIN CHANNEL_ADDRESS_MAP

\* C18: for every control type of CONTROL_BASE_ADDRESS and every pair of
\* CHANNEL_ADDRESS_MAP get_nrpn_address does not fail and returns an address
\* in [0, 16383].
C18_DefinedInRange ==
    Defined => t_out.raised = "none" /\ t_out.address \in 0..16383

\* C19: two defined triples with different control types never resolve to
\* the same address.
C19_TypesApart ==
    (Defined /\ t_out.raised = "none")
    => \A control \in DOMAIN CONTROL_BASE_ADDRESS \ {t_in.control} :
         \A pair \in DOMAIN CHANNEL_ADDRESS_MAP :
            get_nrpn_address(control, pair[1], pair[2]).raised # "none"
            \/ get_nrpn_address(control, pair[1], pair[2]).address # t_out.address

RECURSIVE BitAnd(_, _)
BitAnd(a, b) ==
    IF a = 0 \/ b = 0 THEN 0
    ELSE (IF a % 2 = 1 /\ b % 2 = 1 THEN 1 ELSE 0)
         + 2 * BitAnd(a \div 2, b \div 2)

RECURSIVE BitOr(_, _)
BitOr(a, b) ==
    IF a = 0 THEN b
    ELSE IF b = 0 THEN a
    ELSE (IF a % 2 = 1 \/ b % 2 = 1 THEN 1 ELSE 0)
         + 2 * BitOr(a \div 2, b \div 2)

\* a >> n
RECURSIVE ShiftRight(_, _)
ShiftRight(a, n) == IF n = 0 THEN a ELSE ShiftRight(a \div 2, n - 1)

\* bytes([...]): ValueError unless every element is in range(256)
bytes(xs) ==
    IF \E i \in 1..Len(xs) : xs[i] \notin 0..255
    THEN [raised |-> "ValueError", data |-> <<>>]
    ELSE [raised |-> "none", data |-> xs]

\* the result of a function that builds a list of messages
Commands(msgs) ==
    IF \E i \in 1..Len(msgs) : msgs[i].raised # "none"
    THEN [raised |-> "ValueError", commands |-> <<>>]
    ELSE [raised |-> "none", commands |-> [i \in 1..Len(msgs) |-> msgs[i].data]]

\* a sequence that sends the low seven bits of address and value first
build_nrpn_sequence_LsbFirst(midi_channel_idx, nrpn_address, nrpn_value) ==
    LET status_byte == BitOr(176, midi_channel_idx)
    IN  Commands(<<bytes(<<status_byte, 99, BitAnd(nrpn_address, 127)>>),
                   bytes(<<status_byte, 98,
                           BitAnd(ShiftRight(nrpn_address, 7), 127)>>),
                   bytes(<<status_byte, 6, BitAnd(nrpn_value, 127)>>),
                   bytes(<<status_byte, 38,
                           BitAnd(ShiftRight(nrpn_value, 7), 127)>>)>>)

build_nrpn_sequence(midi_channel_idx, nrpn_address, nrpn_value) ==
    LET nrpn_address_msb == BitAnd(ShiftRight(nrpn_address, 7), 127)
        nrpn_address_lsb == BitAnd(nrpn_address, 127)
        nrpn_value_msb == BitAnd(ShiftRight(nrpn_value, 7), 127)
        nrpn_value_lsb == BitAnd(nrpn_value, 127)
        status_byte == BitOr(176, midi_channel_idx)
        msg1 == bytes(<<status_byte, 99, nrpn_address_msb>>)
        msg2 == bytes(<<status_byte, 98, nrpn_address_lsb>>)
        msg3 == bytes(<<status_byte, 6, nrpn_value_msb>>)
        msg4 == bytes(<<status_byte, 38, nrpn_value_lsb>>)
    IN  Commands(<<msg1, msg2, msg3, msg4>>)

InitSeq ==
    /\ Parked
    /\ t_pc = "input"
    \* 14-bit numbers around the 7-bit boundaries
    /\ \E Probe14 \in {{0, 1, 127, 128, 129, 8191, 8192, 16255, 16256, 16383}} :
         t_in \in [midi_channel_idx : 0..15, nrpn_address : Probe14,
                   nrpn_value : Probe14]
    /\ t_out = <<>>

SeqApply ==
    /\ t_pc = "input"
    /\ t_out' = build_nrpn_sequence(t_in.midi_channel_idx, t_in.nrpn_address,
                                    t_in.nrpn_value)
    /\ t_pc' = "done"
    /\ UNCHANGED <<t_in, prog>>

SpecSeq == InitSeq /\ [][SeqApply]_vars

\* C22: for a channel index in 0..15 and an address and a value in
\* 0..16383 build_nrpn_sequence returns exactly four 3-byte messages, for
\* the controllers 99, 98, 6, 38 in this order, each with the status byte
\* 0xB0 | channel index and a payload in 0..127; the payloads of the first
\* two give back the address as (p1 << 7) | p2 and those of the last two the
\* value as (p3 << 7) | p4.
C22_FourMessages ==
    t_pc = "done"
    => /\ t_out.raised = "none"
       /\ Len(t_out.commands) = 4
       /\ \A i \in 1..4 :
            /\ Len(t_out.commands[i]) = 3
            /\ t_out.commands[i][1] = 176 + t_in.midi_channel_idx
            /\ t_out.commands[i][2] = <<99, 98, 6, 38>>[i]
            /\ t_out.commands[i][3] \in 0..127
       /\ t_out.commands[1][3] * 128 + t_out.commands[2][3] = t_in.nrpn_address
       /\ t_out.commands[3][3] * 128 + t_out.commands[4][3] = t_in.nrpn_value

C22_Witness ==
    /\ t_pc = "done"
    /\ t_in.midi_channel_idx = 15
    /\ t_in.nrpn_address = 16256
    /\ t_in.nrpn_value = 129
    /\ t_out.commands = <<<<191, 99, 127>>, <<191, 98, 0>>,
                          <<191, 6, 1>>, <<191, 38, 1>>>>

\* ------------------------------------------------------------------------
\* sq_midi_controller: the message classes and SQMidiProtocol.send_message
\* ------------------------------------------------------------------------
\* a constructor that raised: there is no message object
NoMessage(error) ==
    [raised |-> error, cls |-> "-", midi_channel_idx |-> -1,
     nrpn_address |-> -1, nrpn_value |-> -1, program_change |-> -1]

RecallScene(scene_number, midi_channel) ==
    IF ~(1 <= midi_channel /\ midi_channel <= 16)
    THEN NoMessage("ValueError")
    ELSE [raised |-> "none", cls |-> "RecallScene",
          midi_channel_idx |-> midi_channel - 1,
          nrpn_address |-> -1, nrpn_value |-> -1,
          program_change |-> scene_number - 1]

\* the part the four Set*NRPN constructors share: the index, the address
\* from the database (its exception leaves the constructor), the value
NrpnMessage(cls, control, from_ch, to_ch, value, midi_channel) ==
    LET r == get_nrpn_address(control, from_ch, to_ch)
    IN  IF r.raised # "none"
        THEN NoMessage(r.raised)
        ELSE [raised |-> "none", cls |-> cls,
              midi_channel_idx |-> midi_channel - 1,
              nrpn_address |-> r.address, nrpn_value |-> value,
              program_change |-> -1]

SetMuteNRPN(from_ch, to_ch, mute_on, midi_channel) ==
    IF ~(1 <= midi_channel /\ midi_channel <= 16)
    THEN NoMessage("ValueError")
    ELSE NrpnMessage("SetMuteNRPN", "Mute", from_ch, to_ch,
                     IF mute_on THEN 1 ELSE 0, midi_channel)

\* max(0, min(16383, level))
Clamp14(level) ==
    LET low == IF level < 16383 THEN level ELSE 16383
    IN  IF low > 0 THEN low ELSE 0

\* a constructor that keeps the level it is given
SetFaderLevelNRPN_NoClamp(from_ch, to_ch, level, midi_channel) ==
    IF ~(1 <= midi_channel /\ midi_channel <= 16)
    THEN NoMessage("ValueError")
    ELSE NrpnMessage("SetFaderLevelNRPN", "Fader", from_ch, to_ch, level,
                     midi_channel)

SetFaderLevelNRPN(from_ch, to_ch, level, midi_channel) ==
    IF ~(1 <= midi_channel /\ midi_channel <= 16)
    THEN NoMessage("ValueError")
    ELSE LET clamped == IF ~(0 <= level /\ level <= 16383)
                        THEN Clamp14(level)      \* after a warning
                        ELSE level
         IN  NrpnMessage("SetFaderLevelNRPN", "Fader", from_ch, to_ch,
                         clamped, midi_channel)

SetPanNRPN(from_ch, to_ch, pan_value, midi_channel) ==
    IF ~(1 <= midi_channel /\ midi_channel <= 16)
    THEN NoMessage("ValueError")
    ELSE LET clamped == IF ~(0 <= pan_value /\ pan_value <= 16383)
                        THEN Clamp14(pan_value)  \* after a warning
                        ELSE pan_value
         IN  NrpnMessage("SetPanNRPN", "Pan", from_ch, to_ch, clamped,
                         midi_channel)

SetAssignNRPN(from_ch, to_ch, assign_on, midi_channel) ==
    IF ~(1 <= midi_channel /\ midi_channel <= 16)
    THEN NoMessage("ValueError")
    ELSE NrpnMessage("SetAssignNRPN", "Assign", from_ch, to_ch,
                     IF assign_on THEN 1 ELSE 0, midi_channel)

\* msg.get_command() of a constructed message
get_command(m) ==
    IF m.cls = "RecallScene"
    THEN LET status_byte == BitOr(176, m.midi_channel_idx)
             program_change_status == BitOr(192, m.midi_channel_idx)
         IN  Commands(<<bytes(<<status_byte, 0, 0>>),
                        bytes(<<status_byte, 32, 0>>),
                        bytes(<<program_change_status, m.program_change>>)>>)
    ELSE build_nrpn_sequence(m.midi_channel_idx, m.nrpn_address, m.nrpn_value)

\* the bytes of the commands, one after the other
RECURSIVE Flat(_)
Flat(commands) ==
    IF commands = <<>> THEN <<>> ELSE Head(commands) \o Flat(Tail(commands))

\* SQMidiProtocol.send_message: the bytes written, and the exception that
\* its except Exception caught and printed.  sock is what the socket does
\* with the sendall calls: fail_at = 0: each returns; fail_at = k: the k-th
\* raises after `partial` bytes of its command were written
SQMidiProtocol_send_message(m, sock) ==
    LET c == get_command(m)
    IN  IF c.raised # "none"
        THEN [error |-> c.raised, wire |-> <<>>]
        ELSE IF sock.fail_at \in 1..Len(c.commands)
        THEN [error |-> "OSError",
              wire |-> Flat(SubSeq(c.commands, 1, sock.fail_at - 1))
                       \o SubSeq(c.commands[sock.fail_at], 1, sock.partial)]
        ELSE [error |-> "none", wire |-> Flat(c.commands)]

\* the command names of a preset and their message classes
Construct(command, from_ch, to_ch, arg, midi_channel) ==
    CASE command = "RecallScene" -> RecallScene(arg, midi_channel)
      [] command = "SetMute" -> SetMuteNRPN(from_ch, to_ch, arg # 0, midi_channel)
      [] command = "SetFaderLevel" ->
             SetFaderLevelNRPN(from_ch, to_ch, arg, midi_channel)
      [] command = "SetPan" -> SetPanNRPN(from_ch, to_ch, arg, midi_channel)
      [] command = "SetAssign" ->
             SetAssignNRPN(from_ch, to_ch, arg # 0, midi_channel)

\* arguments in and out of the 14-bit range, channels in and out of 1..16
InitCmd ==
    /\ Parked
    /\ t_pc = "input"
    /\ t_in \in [command : {"RecallScene", "SetMute", "SetFaderLevel",
                            "SetPan", "SetAssign"},
                 from_ch : {Name("IP", 1), Name("IP", 49)},
                 to_ch : {Name("LR", 0), Name("MTX", 4)},
                 arg : {-1, 0, 1, 8192, 16383, 16384, 20000},
                 midi_channel : {0, 1, 16, 17},
                 sock : {[fail_at |-> 0, partial |-> 0],
                         [fail_at |-> 1, partial |-> 0],
                         [fail_at |-> 3, partial |-> 2]}]
    /\ t_out = <<>>

\* sq_ctrl.send_message(Cls(from_ch, to_ch, arg, midi_channel)): when the
\* constructor raises send_message is not called
CmdApply ==
    /\ t_pc = "input"
    /\ LET m == Construct(t_in.command, t_in.from_ch, t_in.to_ch, t_in.arg,
                          t_in.midi_channel)
       IN  t_out' = IF m.raised # "none"
                    THEN [raised |-> m.raised, error |-> "none", wire |-> <<>>]
                    ELSE [raised |-> "none",
                          error |-> SQMidiProtocol_send_message(m, t_in.sock).error,
                          wire |-> SQMidiProtocol_send_message(m, t_in.sock).wire]
    /\ t_pc' = "done"
    /\ UNCHANGED <<t_in, prog>>

SpecCmd == InitCmd /\ [][CmdApply]_vars

\* C21 (as stated): a fader level or pan value outside [0, 16383] and a MIDI
\* channel outside [1, 16] make the constructor fail, and no byte of the
\* command reaches the wire.
C21_OutOfRangeRejected ==
    ( /\ t_pc = "done"
      /\ \/ t_in.midi_channel \notin 1..16
         \/ /\ t_in.command \in {"SetFaderLevel", "SetPan"}
            /\ t_in.arg \notin 0..16383 )
    => t_out.raised # "none" /\ t_out.wire = <<>>

\* C21 (amended): a MIDI channel outside [1, 16] makes the constructor fail
\* with ValueError and no byte reaches the wire; a fader level or pan value
\* outside [0, 16383] is clamped to the nearer end of the range, the
\* constructor succeeds, and the twelve bytes of the command carry the
\* clamped value.
C21_ChannelRejectedLevelClamped ==
    t_pc = "done"
    => /\ t_in.midi_channel \notin 1..16
          => t_out.raised = "ValueError" /\ t_out.wire = <<>>
       /\ ( /\ t_in.command \in {"SetFaderLevel", "SetPan"}
            /\ t_in.arg \notin 0..16383
            /\ t_in.midi_channel \in 1..16
            /\ t_in.from_ch = Name("IP", 1)
            /\ t_in.sock.fail_at = 0 )
          => /\ t_out.raised = "none"
             /\ t_out.error = "none"
             /\ Len(t_out.wire) = 12
             /\ t_out.wire[9] * 128 + t_out.wire[12]
                  = IF t_in.arg < 0 THEN 0 ELSE 16383

C21_Witness ==
    /\ t_pc = "done"
    /\ t_in.command = "SetFaderLevel"
    /\ t_in.arg = 16384
    /\ t_in.midi_channel = 16
    /\ t_in.sock.fail_at = 0
    /\ t_out.raised = "none"
    /\ Len(t_out.wire) = 12
    /\ t_out.wire[1] = 191
    /\ t_out.wire[9] = 127
    /\ t_out.wire[12] = 127

\* ------------------------------------------------------------------------
\* sq_midi_controller: db_to_fader_level
\* ------------------------------------------------------------------------
\* A dB value is given in quarters of a dB (db4 = 4 * db): such values and
\* the products and quotients below that decide a comparison or a rounding
\* are exact in binary floating point.

\* a table with the same ends and evenly spaced levels
FADER_TAPER_MAP_Even ==
    <<[db |-> -80, level |-> 5698], [db |-> -60, level |-> 8072],
      [db |-> -40, level |-> 10446], [db |-> -35, level |-> 11040],
      [db |-> -30, level |-> 11634], [db |-> -25, level |-> 12228],
      [db |-> -20, level |-> 12822], [db |-> -15, level |-> 13416],
      [db |-> -10, level |-> 14010], [db |-> -5, level |-> 14604],
      [db |-> 0, level |-> 15198], [db |-> 5, level |-> 15790],
      [db |-> 10, level |-> 16383]>>

FADER_TAPER_MAP ==
    <<[db |-> -80, level |-> 5698], [db |-> -60, level |-> 8073],
      [db |-> -40, level |-> 10447], [db |-> -35, level |-> 11041],
      [db |-> -30, level |-> 11634], [db |-> -25, level |-> 12228],
      [db |-> -20, level |-> 12822], [db |-> -15, level |-> 13415],
      [db |-> -10, level |-> 14009], [db |-> -5, level |-> 14602],
      [db |-> 0, level |-> 15196], [db |-> 5, level |-> 15790],
      [db |-> 10, level |-> 16383]>>

\* round(num / den) for den > 0: to the nearest integer, a tie to the even one
round(num, den) ==
    LET q == num \div den
        r == num % den
    IN  IF 2 * r < den THEN q
        ELSE IF 2 * r > den THEN q + 1
        ELSE IF q % 2 = 0 THEN q ELSE q + 1

\* int(num / den): towards zero
int(num, den) ==
    IF num >= 0 THEN num \div den ELSE -((-num) \div den)

\* the index i of the first anchor after the lowest with db <= its db;
\* 0 when the loop ends without a break
Segment(db4) ==
    LET hits == {i \in 2..Len(FADER_TAPER_MAP) : db4 <= 4 * FADER_TAPER_MAP[i].db}
    IN  IF hits = {} THEN 0 ELSE MinOf(hits)

\* a conversion that cuts the fraction off
db_to_fader_level_Truncating(db4) ==
    IF db4 >= 40 THEN 16383
    ELSE IF db4 <= -320 THEN 0
    ELSE LET i == Segment(db4)
             p1 == FADER_TAPER_MAP[IF i = 0 THEN 1 ELSE i - 1]
             p2 == FADER_TAPER_MAP[IF i = 0 THEN 1 ELSE i]
         IN  IF p2.db = p1.db THEN p1.level
             ELSE Clamp14(int(p1.level * 4 * (p2.db - p1.db)
                              + (db4 - 4 * p1.db) * (p2.level - p1.level),
                              4 * (p2.db - p1.db)))

\* a conversion that takes -80 dB from the table
db_to_fader_level_FromTable(db4) ==
    IF db4 >= 40 THEN 16383
    ELSE IF db4 < -320 THEN 0
    ELSE LET i == IF db4 = -320 THEN 2 ELSE Segment(db4)
             p1 == FADER_TAPER_MAP[IF i = 0 THEN 1 ELSE i - 1]
             p2 == FADER_TAPER_MAP[IF i = 0 THEN 1 ELSE i]
         IN  IF p2.db = p1.db THEN p1.level
             ELSE Clamp14(round(p1.level * 4 * (p2.db - p1.db)
                                + (db4 - 4 * p1.db) * (p2.level - p1.level),
                                4 * (p2.db - p1.db)))

db_to_fader_level(db4) ==
    IF db4 >= 40 THEN 16383
    ELSE IF db4 <= -320 THEN 0
    ELSE LET i == Segment(db4)
             p1 == FADER_TAPER_MAP[IF i = 0 THEN 1 ELSE i - 1]
             p2 == FADER_TAPER_MAP[IF i = 0 THEN 1 ELSE i]
         IN  IF p2.db = p1.db THEN p1.level
             ELSE \* p1.level + (db - p1.db) * (p2.level - p1.level)
                  \*            / (p2.db - p1.db), as one fraction
                  Clamp14(round(p1.level * 4 * (p2.db - p1.db)
                                + (db4 - 4 * p1.db) * (p2.level - p1.level),
                                4 * (p2.db - p1.db)))

\* -82 dB to +12 dB in quarters of a dB
ProbeDb == -328..48

InitFader ==
    /\ Parked
    /\ t_pc = "input"
    /\ t_in \in ProbeDb
    /\ t_out = <<>>

FaderApply ==
    /\ t_pc = "input"
    /\ t_out' = db_to_fader_level(t_in)
    /\ t_pc' = "done"
    /\ UNCHANGED <<t_in, prog>>

SpecFader == InitFader /\ [][FaderApply]_vars

\* C23 (as stated): for every anchor (db, level) of the table, from
\* (-80.0, 5698) to (10.0, 16383), db_to_fader_level(db) equals level.
C23_AnchorsExact ==
    t_pc = "done"
    => \A anchor \in {<<-80, 5698>>, <<-60, 8073>>, <<-40, 10447>>,
                      <<-35, 11041>>, <<-30, 11634>>, <<-25, 12228>>,
                      <<-20, 12822>>, <<-15, 13415>>, <<-10, 14009>>,
                      <<-5, 14602>>, <<0, 15196>>, <<5, 15790>>,
                      <<10, 16383>>} :
          t_in = 4 * anchor[1] => t_out = anchor[2]

\* C23 (amended): db_to_fader_level reproduces every anchor of the table
\* above the lowest one, from (-60.0, 8073) to (10.0, 16383); at the lowest
\* anchor, -80.0, it returns 0 and not the table's 5698.
C23_AnchorsAboveLowest ==
    t_pc = "done"
    => /\ \A anchor \in {<<-60, 8073>>, <<-40, 10447>>,
                         <<-35, 11041>>, <<-30, 11634>>, <<-25, 12228>>,
                         <<-20, 12822>>, <<-15, 13415>>, <<-10, 14009>>,
                         <<-5, 14602>>, <<0, 15196>>, <<5, 15790>>,
                         <<10, 16383>>} :
             t_in = 4 * anchor[1] => t_out = anchor[2]
       /\ t_in = -320 => t_out = 0

C23_Witness ==
    /\ t_pc = "done"
    /\ t_in = -140
    /\ t_out = 11041

\* C24: for -80 < db < 10 the result is the linear interpolation between
\* two adjacent anchors with db1 <= db <= db2, rounded to the nearest
\* integer (at most one half away from it); for db >= 10 it is 16383, for
\* db <= -80 it is 0, and every result lies in [0, 16383].
C24_Interpolates ==
    t_pc = "done"
    => /\ t_out \in 0..16383
       /\ t_in >= 40 => t_out = 16383
       /\ t_in <= -320 => t_out = 0
       /\ (-320 < t_in /\ t_in < 40)
          => \E i \in 1..(Len(FADER_TAPER_MAP) - 1) :
               LET a == FADER_TAPER_MAP[i]
                   b == FADER_TAPER_MAP[i + 1]
                   den == 4 * (b.db - a.db)
                   num == a.level * den + (t_in - 4 * a.db) * (b.level - a.level)
               IN  /\ 4 * a.db <= t_in
                   /\ t_in <= 4 * b.db
                   /\ 2 * (t_out * den - num) <= den
                   /\ 2 * (num - t_out * den) <= den

\* -78.5 dB: 5698 + 1.5 * 2375 / 20 = 5876.125
C24_Witness ==
    /\ t_pc = "done"
    /\ t_in = -314
    /\ t_out = 5876

\* C25: db_to_fader_level is monotonically non-decreasing over its whole
\* domain, across the anchors and the two clamping boundaries, with
\* f(10.0) = 16383, f(-80.0) = 0 and f(0.0) = 15196.
C25_Monotonic ==
    t_pc = "done"
    => /\ \A lower \in ProbeDb :
            lower <= t_in => db_to_fader_level(lower) <= t_out
       /\ t_in = 40 => t_out = 16383
       /\ t_in = -320 => t_out = 0
       /\ t_in = 0 => t_out = 15196

\* the step at the lower clamping boundary: -79.75 dB
C25_Witness ==
    /\ t_pc = "done"
    /\ t_in = -319
    /\ t_out = 5728
    /\ db_to_fader_level(-320) = 0

\* ------------------------------------------------------------------------
\* sq_midi_controller: pan_to_value
\* ------------------------------------------------------------------------
\* A pan value is given in halves of a unit (pan2 = 2 * pan).

\* a conversion that does not clamp its argument
pan_to_value_NoClamp(pan2) ==
    int((pan2 + 200) * 16383, 400)

pan_to_value(pan2) ==
    LET low == IF pan2 < -200 THEN -200 ELSE pan2
        pan == IF low > 200 THEN 200 ELSE low
    IN  \* int(((pan + 100.0) / 200.0) * 16383)
        int((pan + 200) * 16383, 400)

\* -105 to +105 in halves of a unit
ProbePan == -210..210

InitPan ==
    /\ Parked
    /\ t_pc = "input"
    /\ t_in \in ProbePan
    /\ t_out = <<>>

PanApply ==
    /\ t_pc = "input"
    /\ t_out' = pan_to_value(t_in)
    /\ t_pc' = "done"
    /\ UNCHANGED <<t_in, prog>>

SpecPan == InitPan /\ [][PanApply]_vars

\* C26: for every pan in [-100, 100] pan_to_value(pan) is
\* ((pan + 100) / 200) * 16383 rounded to the nearest integer (at most one
\* half away from it), and the centre, pan = 0, maps to 8192.
C26_RoundsToNearest ==
    (t_pc = "done" /\ -200 <= t_in /\ t_in <= 200)
    => /\ 2 * (t_out * 400 - (t_in + 200) * 16383) <= 400
       /\ 2 * ((t_in + 200) * 16383 - t_out * 400) <= 400
       /\ t_in = 0 => t_out = 8192

FindPreset(cfg, note) ==
    IF cfg.listener = "sq"
    THEN (IF note = 48 THEN "PRESET C" ELSE IF note = 50 THEN "PRESET D"
          ELSE "none")
    ELSE LET note_name == IF note \in DOMAIN cfg.NOTE_LOOKUP
                          THEN cfg.NOTE_LOOKUP[note] ELSE "None"
         IN  IF note_name # "None" /\ note_name \in cfg.presets.names
             THEN note_name
             ELSE IF note \in cfg.presets.notes THEN "by number"
             ELSE "none"

\* a loop body that takes a Note-On with velocity 0 for a key press
ScanBodyAnyVelocity(cfg, data, i, executed) ==
    IF BitAnd(data[i + 1], 128) # 0
    THEN LET status_byte_base == 144 + (cfg.midi_channel - 1)
         IN  IF data[i + 1] = status_byte_base /\ i + 2 < Len(data)
             THEN [i |-> i + 3,
                   executed |->
                     IF FindPreset(cfg, data[i + 2]) # "none"
                     THEN Append(executed,
                                 [at |-> i, note |-> data[i + 2],
                                  preset |-> FindPreset(cfg, data[i + 2])])
                     ELSE executed]
             ELSE [i |-> i + 1, executed |-> executed]
    ELSE [i |-> i + 1, executed |-> executed]

\* one round of while i < len(data); i counts from 0 as in the code, and
\* executed lists the presets run so far
ScanBody(cfg, data, i, executed) ==
    IF BitAnd(data[i + 1], 128) # 0
    THEN LET status_byte_base == 144 + (cfg.midi_channel - 1)
         IN  IF data[i + 1] = status_byte_base /\ i + 2 < Len(data)
             THEN LET note == data[i + 2]
                      velocity == data[i + 3]
                  IN  [i |-> i + 3,
                       executed |->
                         IF velocity > 0 /\ FindPreset(cfg, note) # "none"
                         THEN Append(executed,
                                     [at |-> i, note |-> note,
                                      preset |-> FindPreset(cfg, note)])
                         ELSE executed]
             ELSE [i |-> i + 1, executed |-> executed]
    ELSE [i |-> i + 1, executed |-> executed]

\* buffers of Note-On status bytes of channels 1 and 2, notes and velocities
InitMidi ==
    /\ Parked
    /\ t_pc = "scan"
    /\ \E n \in 0..MaxData :
         t_in \in [data : [1..n -> {144, 145, 48, 50, 60, 0}],
                   cfg : [listener : {"cafe"}, midi_channel : {1, 2},
                          NOTE_LOOKUP : {[k \in {} |-> "None"],
                                         [k \in {48} |-> "C3"]},
                          presets : {[names |-> {"C3"}, notes |-> {}],
                                     [names |-> {}, notes |-> {50}]}]
                         \cup
                         [listener : {"sq"}, midi_channel : {1},
                          NOTE_LOOKUP : {[k \in {} |-> "None"]},
                          presets : {[names |-> {}, notes |-> {}]}]]
    /\ t_out = [i |-> 0, executed |-> <<>>]

ScanStep ==
    /\ t_pc = "scan"
    /\ t_out.i < Len(t_in.data)
    /\ t_out' = ScanBody(t_in.cfg, t_in.data, t_out.i, t_out.executed)
    /\ UNCHANGED <<t_pc, t_in, prog>>

\* the loop condition fails: parse_midi_message returns
ScanEnd ==
    /\ t_pc = "scan"
    /\ ~(t_out.i < Len(t_in.data))
    /\ t_pc' = "done"
    /\ UNCHANGED <<t_in, t_out, prog>>

SpecMidi == InitMidi /\ [][ScanStep \/ ScanEnd]_vars

\* C28: scanning a buffer from left to right, at every scan position whose
\* byte is 0x90 | (channel - 1) and which two more bytes follow the preset
\* of the note (when it has one) is executed exactly once if and only if
\* the velocity byte is > 0, and the scan skips the three bytes; at every
\* other position it advances by one byte and executes nothing; past the
\* last byte the scan ends.  So every round advances, and a Note-On of
\* another channel or with velocity 0 executes nothing.
C28_ScanTriggersNoteOn ==
    [][ t_pc = "scan"
        => LET data == t_in.data
               i == t_out.i
               status == BitOr(144, t_in.cfg.midi_channel - 1)
           IN  IF i >= Len(data)
               THEN t_pc' = "done" /\ t_out' = t_out
               ELSE IF data[i + 1] = status /\ i + 3 <= Len(data)
               THEN /\ t_out'.i = i + 3
                    /\ t_out'.executed
                         = IF data[i + 3] > 0
                              /\ FindPreset(t_in.cfg, data[i + 2]) # "none"
                           THEN t_out.executed
                                \o <<[at |-> i, note |-> data[i + 2],
                                      preset |-> FindPreset(t_in.cfg,
                                                            data[i + 2])]>>
                           ELSE t_out.executed
               ELSE /\ t_out'.i = i + 1
                    /\ t_out'.executed = t_out.executed ]_vars

\* 90 30 3c: a Note-On of channel 1 for C3 with velocity 60
C28_Witness ==
    /\ t_pc = "done"
    /\ t_in.cfg.listener = "cafe"
    /\ t_in.cfg.midi_channel = 1
    /\ t_in.data = <<144, 48, 60>>
    /\ t_out.i = 3
    /\ t_out.executed = <<[at |-> 0, note |-> 48, preset |-> "C3"]>>

\* ------------------------------------------------------------------------
\* midi_listener: the listening loop on the SQ connection and execute_preset
\* ------------------------------------------------------------------------
\* t_in is the preset that the next Note-On triggers, with the state of the
\* SQ socket's send side (sock, as in SQMidiProtocol_send_message) and
\* whether a Kramer controller is connected; t_out.log lists the actions
\* attempted, t_out.k counts the actions of the current list that are over.

\* one SQ action of a preset, try block and except clause: `caught` is the
\* exception that reached except Exception of execute_preset, `error` the
\* one that send_message caught itself, `wire` the bytes written
RunSQ(action, sock) ==
    IF action.command = "Wait"
    THEN [device |-> "SQ", command |-> action.command,
          caught |-> IF action.arg < 0 THEN "ValueError" ELSE "none",
          error |-> "none", wire |-> <<>>]
    ELSE LET m == Construct(action.command, action.from_ch, action.to_ch,
                            action.arg, 1)
         IN  IF m.raised # "none"
             THEN [device |-> "SQ", command |-> action.command,
                   caught |-> m.raised, error |-> "none", wire |-> <<>>]
             ELSE [device |-> "SQ", command |-> action.command,
                   caught |-> "none",
                   error |-> SQMidiProtocol_send_message(m, sock).error,
                   wire |-> SQMidiProtocol_send_message(m, sock).wire]

\* a preset as the configuration file can give it: SQ actions that work,
\* that fail in the constructor (unknown channel), in get_command (scene 0)
\* and in time.sleep (negative time), Kramer actions with a number, with
\* something int() rejects, and with an unknown command
InitListen ==
    /\ Parked
    /\ t_pc = "listen"
    /\ \E n \in 0..MaxActions, k \in 0..MaxActions :
         t_in \in [SQ : [1..n -> [command : {"SetMute"},
                                  from_ch : {Name("IP", 1), Name("IP", 49)},
                                  to_ch : {Name("LR", 0)}, arg : {1}]
                                 \cup
                                 [command : {"RecallScene", "Wait"},
                                  from_ch : {Name("IP", 1)},
                                  to_ch : {Name("LR", 0)}, arg : {-1}]],
                   Kramer : [1..k -> [command : {"Route"}, args : {"1", "x"}]
                                     \cup
                                     [command : {"Bogus"}, args : {"1"}]],
                   sock : {[fail_at |-> 0, partial |-> 0],
                           [fail_at |-> 2, partial |-> 1]},
                   kramer_ctrl : BOOLEAN]
    /\ t_out = [k |-> 0, log |-> <<>>, ran |-> FALSE, eof |-> FALSE]

\* data = sq_controller.listen_blocking(); if data: parse_midi_message(...)
ListenBlocking ==
    /\ t_pc = "listen"
    /\ \/ /\ ~t_out.eof              \* a Note-On that has a preset
          /\ ~t_out.ran
          /\ t_pc' = "sq"
          /\ t_out' = t_out
       \/ /\ ~t_out.eof              \* the mixer closes: recv returns b'',
          /\ t_pc' = "listen"        \* listen_blocking returns None
          /\ t_out' = [t_out EXCEPT !.eof = TRUE]
       \/ /\ t_pc' = "restart"       \* recv raises: out of both loops
          /\ t_out' = t_out
    /\ UNCHANGED <<t_in, prog>>

\* a loop over the SQ actions that an exception ends
PresetSQAborting ==
    /\ t_pc = "sq"
    /\ IF t_out.k < Len(t_in.SQ)
       THEN LET r == RunSQ(t_in.SQ[t_out.k + 1], t_in.sock)
            IN  /\ t_out' = [t_out EXCEPT !.log = Append(@, r),
                                          !.k = IF r.caught # "none"
                                                THEN Len(t_in.SQ) ELSE @ + 1]
                /\ t_pc' = t_pc
       ELSE /\ t_out' = [t_out EXCEPT !.k = 0]
            /\ t_pc' = "kramer"
    /\ UNCHANGED <<t_in, prog>>

\* for action in sq_actions: try ... except Exception: print
PresetSQ ==
    /\ t_pc = "sq"
    /\ IF t_out.k < Len(t_in.SQ)
       THEN /\ t_out' = [t_out EXCEPT
                           !.log = Append(@, RunSQ(t_in.SQ[t_out.k + 1],
                                                   t_in.sock)),
                           !.k = @ + 1]
            /\ t_pc' = t_pc
       ELSE /\ t_out' = [t_out EXCEPT !.k = 0]
            /\ t_pc' = "kramer"
    /\ UNCHANGED <<t_in, prog>>

\* a Kramer loop that does not ask whether there is a controller
PresetKramerUnguarded ==
    /\ t_pc = "kramer"
    /\ IF t_out.k < Len(t_in.Kramer)
       THEN LET action == t_in.Kramer[t_out.k + 1]
            IN  /\ \E sent \in {"matched", "send_error"} :
                     t_out' = [t_out EXCEPT
                       !.log = Append(@,
                          [device |-> "Kramer", command |-> action.command,
                           caught |-> IF action.command = "Route"
                                         /\ action.args = "x"
                                      THEN "ValueError" ELSE "none",
                           error |-> IF action.command = "Route"
                                        /\ action.args # "x"
                                        /\ sent # "matched"
                                     THEN sent ELSE "none",
                           wire |-> <<>>]),
                       !.k = @ + 1]
                /\ t_pc' = t_pc
       ELSE /\ t_out' = [t_out EXCEPT !.k = 0, !.ran = TRUE]
            /\ t_pc' = "listen"
    /\ UNCHANGED <<t_in, prog>>

\* if "Kramer" in actions and kramer_ctrl: for action in kramer_actions:
\* try ... except Exception: print; then back to the listening loop.
\* KramerProtocol.send_message returns whatever happens to the command.
PresetKramer ==
    /\ t_pc = "kramer"
    /\ IF t_in.kramer_ctrl /\ t_out.k < Len(t_in.Kramer)
       THEN LET action == t_in.Kramer[t_out.k + 1]
            IN  /\ \E sent \in {"matched", "send_error"} :
                     t_out' = [t_out EXCEPT
                       !.log = Append(@,
                          [device |-> "Kramer", command |-> action.command,
                           caught |-> IF action.command = "Route"
                                         /\ action.args = "x"
                                      THEN "ValueError" ELSE "none",
                           error |-> IF action.command = "Route"
                                        /\ action.args # "x"
                                        /\ sent # "matched"
                                     THEN sent ELSE "none",
                           wire |-> <<>>]),
                       !.k = @ + 1]
                /\ t_pc' = t_pc
       ELSE /\ t_out' = [t_out EXCEPT !.k = 0, !.ran = TRUE]
            /\ t_pc' = "listen"
    /\ UNCHANGED <<t_in, prog>>

SpecListen ==
    InitListen /\ [][ListenBlocking \/ PresetSQ \/ PresetKramer]_vars

\* C29: a failing action, whether its command cannot be constructed or its
\* send fails, stops neither the preset nor the listener: when the preset
\* is over every SQ action and, with a Kramer controller, every Kramer
\* action has been attempted, in order, and the listener is back in its
\* listening loop, which no action of a preset makes it leave.
C29_FailuresDoNotStopPreset ==
    /\ (t_pc = "restart" /\ ~t_out.ran) => t_out.log = <<>>
    /\ t_pc = "sq"
       => /\ Len(t_out.log) = t_out.k
          /\ \A i \in 1..t_out.k : t_out.log[i].command = t_in.SQ[i].command
    /\ t_pc = "kramer"
       => /\ Len(t_out.log) = Len(t_in.SQ) + t_out.k
          /\ \A i \in 1..t_out.k :
               t_out.log[Len(t_in.SQ) + i].command = t_in.Kramer[i].command
    /\ t_out.ran
       => Len(t_out.log) = Len(t_in.SQ)
                           + IF t_in.kramer_ctrl THEN Len(t_in.Kramer) ELSE 0

\* an unknown channel, then a mute that is sent; a Route that int() rejects,
\* then one whose send fails: all four attempted, the listener polling again
C29_Witness ==
    /\ t_pc = "listen"
    /\ t_out.ran
    /\ Len(t_out.log) = 4
    /\ t_out.log[1].caught = "KeyError"
    /\ t_out.log[2].caught = "none"
    /\ Len(t_out.log[2].wire) = 12
    /\ t_out.log[3].caught = "ValueError"
    /\ t_out.log[4].error = "send_error"

\* C30: when the SQ mixer closes its connection (recv returns empty bytes)
\* the listening loop is left: the listener is never polling a connection
\* on which it has read the end of the stream.
C30_PeerCloseEndsListening ==
    ~(t_pc = "listen" /\ t_out.eof)

\* ------------------------------------------------------------------------
\* The Kramer is unavailable
\* ------------------------------------------------------------------------
\* main is a running process: connecting, the backoff and the steps of
\* send_message are taken when they can be; nothing is assumed about the
\* devices, the triggers or CTRL-C
FairMain ==
    /\ FairSpec
    /\ WF_vars(SQEnter)
    /\ WF_vars(KramerEnter)
    /\ WF_vars(Backoff)

\* the SQ connect of this round failed
SQDown == pc = "backoff" /\ k_sock = "none"

\* the Kramer connect of this round succeeded: its handshake runs
KramerUp == InCall /\ ret = "init"

\* C31: once the SQ mixer is connected, main reaches its listening loop
\* however the Kramer connect fails (refused, timed out, unreachable), unless
\* the Kramer is available after all, the SQ mixer stops being reachable or
\* the process is interrupted.
C31_ListensWithoutKramer ==
    (pc = "kenter") ~> (pc = "listen" \/ KramerUp \/ SQDown \/ exit_code # -1)

\* ------------------------------------------------------------------------
\* Lines that arrive in parts
\* ------------------------------------------------------------------------
\* the device has answered the command of the running call with a complete
\* line, and the reads of the call have taken everything the device sent
ReplyRead ==
    /\ AtExit
    /\ nsent = 1
    /\ peer = "up"
    /\ ~owed
    /\ ~midline
    /\ rx = <<>>

\* C32: when the reads of a call have taken the complete reply to its
\* command, the call reports a match, also when a read timed out in the
\* middle of that line and the line came in two parts.
C32_SplitLineMatches == ReplyRead => outcome = "match"

\* ------------------------------------------------------------------------
\* _recv_until_newline, called again and again on a stream that has arrived
\*   t_in.sent: what the device sent, t_in.q: what is still in the socket,
\*   t_out: the data each call returned
\* ------------------------------------------------------------------------
\* the stream is lines: a body is followed by its line feed.  It can begin
\* with the line feed of a line read before and end in a body
InitRecv ==
    /\ Parked
    /\ t_pc = "recv"
    /\ \E n \in 0..MaxStream :
         \E q \in [1..n -> {Piece(l, "other") : l \in 0..Len(Lines)}] :
             /\ \A i \in 1..(n - 1) : (q[i].line = NL) # (q[i + 1].line = NL)
             /\ t_in = [sent |-> q, q |-> q]
    /\ t_out = <<>>

\* data = self._recv_until_newline(timeout=0.5); if not data: break
RecvLine ==
    /\ t_pc = "recv"
    /\ \E n \in _recv_until_newline(t_in.q) :
         /\ t_out' = Append(t_out, SubSeq(t_in.q, 1, n))
         /\ t_in' = [t_in EXCEPT !.q = SubSeq(t_in.q, n + 1, Len(t_in.q))]
         /\ t_pc' = IF n = 0 THEN "done" ELSE "recv"
    /\ UNCHANGED prog

SpecRecv == InitRecv /\ [][RecvLine]_vars

\* C33: the data a call returns holds at most one line feed, as its last
\* byte; what the device sent after it stays queued for the next call, so
\* the calls return the stream piece by piece in arrival order and never two
\* lines at once.
C33_OneLinePerCall ==
    /\ \A k \in 1..Len(t_out) :
         \A i \in 1..Len(t_out[k]) :
             t_out[k][i].line = NL => i = Len(t_out[k])
    /\ Flat(t_out) \o t_in.q = t_in.sent

\* two responses that arrived back to back, returned as two lines in order
C33_Witness ==
    /\ t_pc = "done"
    /\ Len(t_in.sent) = 4
    /\ t_in.sent[1].line = 1
    /\ t_in.sent[3].line = 3
    /\ t_out = << SubSeq(t_in.sent, 1, 2), SubSeq(t_in.sent, 3, 4), <<>> >>

\* ------------------------------------------------------------------------
\* SQMidiProtocol.send_message and failing writes
\* ------------------------------------------------------------------------
\* C34: a command's message sequence is written to the socket as a whole or
\* not at all: after send_message the wire holds every byte of the sequence
\* or none, never a proper prefix of it.
C34_SequenceAtomic ==
    (t_pc = "done" /\ t_out.raised = "none")
    => \/ t_out.wire = <<>>
       \/ t_out.wire =
            SQMidiProtocol_send_message(
                Construct(t_in.command, t_in.from_ch, t_in.to_ch, t_in.arg,
                          t_in.midi_channel),
                [fail_at |-> 0, partial |-> 0]).wire

\* ------------------------------------------------------------------------
\* execute_preset: the order of the commands
\* ------------------------------------------------------------------------
\* C35: the commands of a preset are issued one at a time, each after the
\* call of the one before has returned: first the SQ actions in the order of
\* the configuration, then the Kramer actions in theirs; without a Kramer
\* controller no Kramer command is issued.
C35_OneAfterAnother ==
    [][ /\ Len(t_out'.log) <= Len(t_out.log) + 1
        /\ SubSeq(t_out'.log, 1, Len(t_out.log)) = t_out.log
        /\ \A i \in 1..Len(t_out'.log) :
             IF i <= Len(t_in.SQ)
             THEN /\ t_out'.log[i].device = "SQ"
                  /\ t_out'.log[i].command = t_in.SQ[i].command
             ELSE /\ t_out'.log[i].device = "Kramer"
                  /\ t_in.kramer_ctrl
                  /\ i - Len(t_in.SQ) <= Len(t_in.Kramer)
                  /\ t_out'.log[i].command
                       = t_in.Kramer[i - Len(t_in.SQ)].command ]_vars

\* a mute, a scene, a route and an unknown Kramer command, issued in the
\* order of the configuration
C35_Witness ==
    /\ t_pc = "listen"
    /\ t_out.ran
    /\ t_in.kramer_ctrl
    /\ Len(t_out.log) = 4
    /\ t_out.log[1].command = "SetMute"
    /\ t_out.log[2].command = "RecallScene"
    /\ t_out.log[3].command = "Route"
    /\ t_out.log[4].command = "Bogus"
    /\ t_out.log[4].device = "Kramer"

\* ------------------------------------------------------------------------
\* midi_listener: a stream of Note-On messages received in two chunks
\*   t_in.msgs: the 3-byte messages the mixer sent; t_in.cut: the number of
\*   bytes the first recv returned, the second returns the rest;
\*   t_out.chunk: the buffer being parsed, t_out.i, t_out.executed as above
\* ------------------------------------------------------------------------
InitChunks ==
    /\ Parked
    /\ t_pc = "scan"
    /\ \E n \in 0..MaxNotes :
         \E m \in [1..n -> {<<144, 48, 60>>, <<144, 50, 1>>, <<144, 48, 0>>,
                            <<145, 48, 60>>}] :
             t_in \in [msgs : {m},
                       cut : 0..(3 * n),
                       cfg : [listener : {"cafe"}, midi_channel : {1, 2},
                              NOTE_LOOKUP : {[k \in {48} |-> "C3"]},
                              presets : {[names |-> {"C3"}, notes |-> {}],
                                         [names |-> {}, notes |-> {50}]}]
                             \cup
                             [listener : {"sq"}, midi_channel : {1},
                              NOTE_LOOKUP : {[k \in {} |-> "None"]},
                              presets : {[names |-> {}, notes |-> {}]}]]
    /\ t_out = [chunk |-> 1, i |-> 0, executed |-> <<>>]

\* while True: data = sq_controller.listen_blocking(); if data:
\* parse_midi_message(data, ...): a round of the scan of the current buffer,
\* or, when the scan is over, the next buffer scanned from its first byte
ListenParse ==
    /\ t_pc = "scan"
    /\ LET data == IF t_out.chunk = 1
                   THEN SubSeq(Flat(t_in.msgs), 1, t_in.cut)
                   ELSE SubSeq(Flat(t_in.msgs), t_in.cut + 1,
                               Len(Flat(t_in.msgs)))
       IN  \/ /\ t_out.i < Len(data)
              /\ t_out' = [chunk |-> t_out.chunk,
                           i |-> ScanBody(t_in.cfg, data, t_out.i,
                                          t_out.executed).i,
                           executed |-> ScanBody(t_in.cfg, data, t_out.i,
                                                 t_out.executed).executed]
              /\ t_pc' = t_pc
           \/ /\ ~(t_out.i < Len(data))
              /\ t_out.chunk = 1
              /\ t_out' = [t_out EXCEPT !.chunk = 2, !.i = 0]
              /\ t_pc' = t_pc
           \/ /\ ~(t_out.i < Len(data))
              /\ t_out.chunk = 2
              /\ t_out' = t_out
              /\ t_pc' = "done"
    /\ UNCHANGED <<t_in, prog>>

SpecChunks == InitChunks /\ [][ListenParse]_vars

\* C36: when the stream has been received, the presets executed are those of
\* the Note-On messages of the configured channel with velocity > 0 whose
\* note has a preset, each once and in order, wherever the stream was cut
\* into buffers.
C36_SplitNoteOnTriggers ==
    t_pc = "done"
    => LET IsKey(m) == /\ m[1] = 144 + (t_in.cfg.midi_channel - 1)
                       /\ m[3] > 0
                       /\ FindPreset(t_in.cfg, m[2]) # "none"
           keys == SelectSeq(t_in.msgs, IsKey)
       IN  /\ Len(t_out.executed) = Len(keys)
           /\ \A k \in 1..Len(keys) :
                /\ t_out.executed[k].note = keys[k][2]
                /\ t_out.executed[k].preset = FindPreset(t_in.cfg, keys[k][2])

\* ------------------------------------------------------------------------
\* KramerProtocol.send_message: the payload is written once
\* ------------------------------------------------------------------------
\* C37: a call writes the payload of its command at most once: once before
\* the first read, never again while it reads, and not at all exactly when
\* the write fails; a call that ends without a match has written it once.
C37_WrittenOnce ==
    /\ nsent <= 1
    /\ (pc = "match" \/ reads # <<>>) => nsent = 1
    /\ AtExit => (nsent = 0 <=> outcome = "send_error")
    /\ (AtExit /\ outcome = "timeout") => nsent = 1

\* a Route that used up its ten reads on noise, and was written once
C37_Witness ==
    /\ AtExit
    /\ msg = "ROUTE"
    /\ outcome = "timeout"
    /\ Len(reads) = 10
    /\ nsent = 1

\* ------------------------------------------------------------------------
\* KramerProtocol.send_message: answers with too few fields
\* ------------------------------------------------------------------------
\* C38: a Route is reported as answered only when the line with the
\* expected tag carries the three parameter fields that its handler formats;
\* a line with the tag and fewer fields is not reported as the match.
C38_ShortAnswerNoMatch ==
    (t_pc = "done" /\ t_out.found)
    => Len(Split(_parse_response(Answer(t_in.answer, t_in.layer, t_in.dest,
                                        t_in.source)).params, ",")) >= 3

====
